---- MODULE Spec2Model ----
(***************************************************************************)
(* A model of the rune compile-and-execute pipeline: the encoder of       *)
(* crates/rune/src/compiler.rs lowering a parsed file to stack            *)
(* instructions, and the stack machine that runs them.                    *)
(***************************************************************************)
EXTENDS Integers, Sequences, FiniteSets, TLC

(***************************************************************************)
(* Bounds of the model.                                                    *)
(***************************************************************************)
MaxParams == 2
MaxStack == 9
MaxHeap == 2
IntBits == 7
MaxShared == 2

(***************************************************************************)
(* Syntax tree.  Every node has the same shape: k is the variant of       *)
(* ast::Expr, n an identifier or operator, v a literal value, a the       *)
(* ordered children and t the optional trailing expression of a block     *)
(* (or the optional else block of an if).                                  *)
(***************************************************************************)
Node(k, n, v, a, t) == [k |-> k, n |-> n, v |-> v, a |-> a, t |-> t]

UnitLiteral == Node("UnitLiteral", "", 0, <<>>, <<>>)
BoolLiteral(b) == Node("BoolLiteral", "", IF b THEN 1 ELSE 0, <<>>, <<>>)
NumberLiteral(i) == Node("NumberLiteral", "", i, <<>>, <<>>)
Ident(x) == Node("Ident", x, 0, <<>>, <<>>)
Ref(e) == Node("ExprUnary", "Ref", 0, <<e>>, <<>>)
Not(e) == Node("ExprUnary", "Not", 0, <<e>>, <<>>)
Deref(e) == Node("ExprUnary", "Deref", 0, <<e>>, <<>>)
Neg(e) == Node("ExprUnary", "Neg", 0, <<e>>, <<>>)
Binary(op, l, r) == Node("ExprBinary", op, 0, <<l, r>>, <<>>)
Assign(l, r) == Binary("Assign", l, r)
Let(x, e) == Node("Let", x, 0, <<e>>, <<>>)
CallFn(f, args) == Node("CallFn", f, 0, args, <<>>)
\* instance.name(args)
CallInstanceFn(instance, name, args) == Node("CallInstanceFn", name, 0, args, <<instance>>)
ArrayLiteral(items) == Node("ArrayLiteral", "", 0, items, <<>>)
CharLiteral(c) == Node("CharLiteral", "", c, <<>>, <<>>)
StringLiteral(string) == Node("StringLiteral", string, 0, <<>>, <<>>)
\* An object literal `#{key: value, ...}`: the values, and the keys as
\* string literals.
ObjectLiteral(keys, values) == Node("ObjectLiteral", "", 0, values, keys)
IndexGet(target, index) == Node("IndexGet", "", 0, <<target, index>>, <<>>)
IndexSet(target, index, value) == Node("IndexSet", "", 0, <<target, index, value>>, <<>>)
Block(exprs, trailing) == Node("Block", "", 0, exprs, trailing)
\* a = <<condition, block, else-if condition, else-if block, ...>>, t = else block
ExprIf(cond, block, elseifs, else) == Node("ExprIf", "", 0, <<cond, block>> \o elseifs, else)
While(cond, body) == Node("While", "", 0, <<cond, body>>, <<>>)
ExprLoop(body) == Node("ExprLoop", "", 0, <<body>>, <<>>)
Break == Node("Break", "", 0, <<>>, <<>>)

FnDecl(name, args, body) == [name |-> name, args |-> args, body |-> body]

Names == {"x", "y", "z", "w", "s", "i"}

(***************************************************************************)
(* Instructions.  a is the numeric operand (offset, count, args, literal, *)
(* label before linking and relative offset after), h the call hash.      *)
(***************************************************************************)
Inst(op, a) == [op |-> op, a |-> a, h |-> ""]
InstCall(h, args) == [op |-> "Call", a |-> args, h |-> h]
InstCallInstance(h, args) == [op |-> "CallInstance", a |-> args, h |-> h]
InstClosure(h, count) == [op |-> "Closure", a |-> count, h |-> h]
InstString(string) == [op |-> "String", a |-> 0, h |-> string]

JumpOps == {"Jump", "JumpIf", "JumpIfNot"}

(***************************************************************************)
(* Locals (compiler.rs, struct Locals).                                    *)
(***************************************************************************)
NoLocal == [bound |-> FALSE, offset |-> 0, references_at |-> <<>>]

LocalsNew == [locals |-> [n \in Names |-> NoLocal], var_count |-> 0]

\* Locals::new_local: the slot is taken and the counter advanced before the
\* conflict is detected; the result carries the conflict flag.
new_local(l, name, references_at) ==
    [locals |-> [locals |-> [l.locals EXCEPT ![name] =
                                [bound |-> TRUE, offset |-> l.var_count,
                                 references_at |-> references_at]],
                 var_count |-> l.var_count + 1],
     conflict |-> l.locals[name].bound]

\* Locals::decl_var: Err(old.offset) when the name is bound, leaving the
\* locals untouched; otherwise the next slot.
decl_var(l, name, references_at) ==
    IF l.locals[name].bound
    THEN [locals |-> l, replaced |-> TRUE, offset |-> l.locals[name].offset]
    ELSE [locals |-> [locals |-> [l.locals EXCEPT ![name] =
                                     [bound |-> TRUE, offset |-> l.var_count,
                                      references_at |-> references_at]],
                      var_count |-> l.var_count + 1],
          replaced |-> FALSE, offset |-> l.var_count]

(***************************************************************************)
(* Encoder state (compiler.rs, struct Encoder) together with the assembly *)
(* it writes to.  marks, breaks, blocks, looped and prologue are          *)
(* observation logs: they record where the encoder stood, and are read by *)
(* no encoding step.                                                       *)
(***************************************************************************)
EncoderNew ==
    [insts |-> <<>>, labels |-> <<>>, parents |-> <<>>, locals |-> LocalsNew,
     loops |-> <<>>, references_at |-> <<>>, err |-> "none",
     marks |-> <<>>, breaks |-> <<>>, blocks |-> <<>>, looped |-> <<>>,
     prologue |-> LocalsNew]

Ok(enc) == enc.err = "none"

Fail(enc, e) == IF Ok(enc) THEN [enc EXCEPT !.err = e] ELSE enc

\* Assembly::push
push(enc, inst) == IF Ok(enc) THEN [enc EXCEPT !.insts = Append(@, inst)] ELSE enc

\* Assembly::new_label: a fresh, uncommitted label; its id is Len(labels).
new_label(enc) == IF Ok(enc) THEN [enc EXCEPT !.labels = Append(@, -1)] ELSE enc

\* Assembly::label: commit the label to the current instruction index.
label(enc, l) ==
    IF ~Ok(enc) THEN enc
    ELSE IF enc.labels[l] # -1 THEN Fail(enc, "LabelConflict")
    ELSE [enc EXCEPT !.labels[l] = Len(enc.insts)]

\* Assembly::jump, jump_if, jump_if_not: a jump holding a label.
jump(enc, l) == push(enc, Inst("Jump", l))
jump_if(enc, l) == push(enc, Inst("JumpIf", l))
jump_if_not(enc, l) == push(enc, Inst("JumpIfNot", l))

(***************************************************************************)
(* The encoder (compiler.rs, impl Encoder).  A failed step (`?`) leaves   *)
(* err set, and every later step of the same function is skipped.  The    *)
(* steps of a function that follow a sub-expression are written as local  *)
(* operators applied to the encoder state the sub-expression leaves.      *)
(***************************************************************************)
RECURSIVE encode_expr(_, _, _)
RECURSIVE encode_block(_, _, _)
RECURSIVE encode_stmts(_, _, _)
RECURSIVE encode_rev(_, _, _)
RECURSIVE encode_object_items(_, _, _)
RECURSIVE encode_assign_target(_, _, _)
RECURSIVE encode_else_if_conditions(_, _, _, _)
RECURSIVE is_all_literal(_)
RECURSIVE all_literal_from(_, _)

\* `self.references_at.clear()`
Clear(enc) == IF Ok(enc) THEN [enc EXCEPT !.references_at = <<>>] ELSE enc

\* `if !self.references_at.is_empty() { return Err(ReturnLocalReferences) }`
check_references(enc, needs_value) ==
    IF Ok(enc) /\ needs_value /\ enc.references_at # <<>>
    THEN Fail(enc, "ReturnLocalReferences")
    ELSE enc

\* Encoder::pop_locals
pop_locals(enc, var_count) ==
    IF var_count = 0 THEN enc
    ELSE IF var_count = 1 THEN push(enc, Inst("Pop", 0))
    ELSE push(enc, Inst("PopN", var_count))

\* Encoder::clean_up_locals
clean_up_locals(enc, var_count) ==
    IF var_count = 0 THEN enc ELSE push(enc, Inst("Clean", var_count))

\* `for (expr, _) in &block.exprs { encode_expr(expr, NeedsValue(false))? }`
encode_stmts(enc, exprs, i) ==
    IF i > Len(exprs) THEN enc
    ELSE encode_stmts(encode_expr(enc, exprs[i], FALSE), exprs, i + 1)

\* `for expr in items.iter().rev() { encode_expr(expr, NeedsValue(true))? }`
encode_rev(enc, items, i) ==
    IF i < 1 THEN enc
    ELSE encode_rev(encode_expr(enc, items[i], TRUE), items, i - 1)

\* Encoder::encode_block without `self.locals = parent`: the locals of the
\* block stay.
encode_block_keeps_locals(enc, block, needs_value) ==
    LET open_var_count == enc.locals.var_count
        parent_count == Len(enc.parents)
        tail(e) ==
            IF block.t = <<>> THEN e
            ELSE check_references(encode_expr(Clear(e), block.t[1], needs_value),
                                  needs_value)
        closing(e) ==
            [before |-> enc.locals, parents_before |-> parent_count,
             needs_value |-> needs_value, at |-> Len(e.insts), closing |-> e.locals,
             cleanup |-> <<>>, after |-> e.locals, parents_after |-> Len(e.parents)]
        cleanup(e) ==
            IF needs_value THEN clean_up_locals(e, e.locals.var_count - open_var_count)
            ELSE pop_locals(e, e.locals.var_count - open_var_count)
        closed(e) ==
            [e EXCEPT !.blocks[Len(e.blocks)] =
                [@ EXCEPT !.cleanup = SubSeq(e.insts, e.blocks[Len(e.blocks)].at + 1,
                                              Len(e.insts)),
                          !.after = e.locals,
                          !.parents_after = Len(e.parents)]]
        leave(e) ==
            IF ~Ok(e) THEN e
            ELSE IF Len(e.parents) = 0 THEN Fail(e, "Internal")
            ELSE IF Len(e.parents) - 1 # parent_count
            THEN Fail([e EXCEPT !.parents = SubSeq(@, 1, Len(@) - 1)], "Internal")
            ELSE closed([e EXCEPT !.parents = SubSeq(@, 1, Len(@) - 1)])
        logged(e) ==
            IF ~Ok(e) THEN e ELSE [e EXCEPT !.blocks = Append(@, closing(e))]
    IN  IF ~Ok(enc) THEN enc
        ELSE leave(cleanup(logged(tail(encode_stmts(
                 [enc EXCEPT !.parents = Append(@, enc.locals)], block.a, 1)))))

\* Encoder::encode_block
encode_block(enc, block, needs_value) ==
    LET open_var_count == enc.locals.var_count
        parent_count == Len(enc.parents)
        tail(e) ==
            IF block.t = <<>> THEN e
            ELSE check_references(encode_expr(Clear(e), block.t[1], needs_value),
                                  needs_value)
        closing(e) ==
            [before |-> enc.locals, parents_before |-> parent_count,
             needs_value |-> needs_value, at |-> Len(e.insts), closing |-> e.locals,
             cleanup |-> <<>>, after |-> e.locals, parents_after |-> Len(e.parents)]
        cleanup(e) ==
            IF needs_value THEN clean_up_locals(e, e.locals.var_count - open_var_count)
            ELSE pop_locals(e, e.locals.var_count - open_var_count)
        closed(e) ==
            [e EXCEPT !.blocks[Len(e.blocks)] =
                [@ EXCEPT !.cleanup = SubSeq(e.insts, e.blocks[Len(e.blocks)].at + 1,
                                              Len(e.insts)),
                          !.after = e.locals,
                          !.parents_after = Len(e.parents)]]
        leave(e) ==
            IF ~Ok(e) THEN e
            ELSE IF Len(e.parents) = 0 THEN Fail(e, "Internal")
            ELSE IF Len(e.parents) - 1 # parent_count
            THEN Fail([e EXCEPT !.parents = SubSeq(@, 1, Len(@) - 1)], "Internal")
            ELSE closed([e EXCEPT !.locals = e.parents[Len(e.parents)],
                                  !.parents = SubSeq(@, 1, Len(@) - 1)])
        logged(e) ==
            IF ~Ok(e) THEN e ELSE [e EXCEPT !.blocks = Append(@, closing(e))]
    IN  IF ~Ok(enc) THEN enc
        ELSE leave(cleanup(logged(tail(encode_stmts(
                 [enc EXCEPT !.parents = Append(@, enc.locals)], block.a, 1)))))

\* ast::ArrayLiteral::is_all_literal
all_literal_from(items, i) ==
    IF i > Len(items) THEN TRUE
    ELSE is_all_literal(items[i]) /\ all_literal_from(items, i + 1)

is_all_literal(e) ==
    \/ e.k \in {"UnitLiteral", "BoolLiteral", "NumberLiteral"}
    \/ e.k = "ArrayLiteral" /\ all_literal_from(e.a, 1)

\* Encoder::encode_array_literal
encode_array_literal(enc, array_literal, needs_value) ==
    IF ~needs_value /\ all_literal_from(array_literal.a, 1) THEN enc
    ELSE push(encode_rev(enc, array_literal.a, Len(array_literal.a)),
              Inst("Array", Len(array_literal.a)))

\* Encoder::encode_char_literal
encode_char_literal(enc, c, needs_value) ==
    IF ~needs_value THEN enc ELSE push(enc, Inst("Char", c.v))

\* Encoder::encode_string_literal: the string is interned in the unit and
\* the instruction names it.
encode_string_literal(enc, string, needs_value) ==
    IF ~needs_value THEN enc ELSE push(enc, InstString(string.n))

\* `for (key, _, value) in object_literal.items.iter().rev()`
encode_object_items(enc, object_literal, i) ==
    IF i < 1 THEN enc
    ELSE encode_object_items(
             encode_string_literal(encode_expr(enc, object_literal.a[i], TRUE),
                                   object_literal.t[i], TRUE),
             object_literal, i - 1)

\* Encoder::encode_object_literal
encode_object_literal(enc, object_literal, needs_value) ==
    IF ~needs_value THEN enc
    ELSE push(encode_object_items(enc, object_literal, Len(object_literal.a)),
              Inst("Object", Len(object_literal.a)))

\* Encoder::encode_unit_literal
encode_unit_literal(enc, literal) == push(enc, Inst("Unit", 0))

\* Encoder::encode_bool_literal
encode_bool_literal(enc, b) == push(enc, Inst("Bool", b.v))

\* Encoder::encode_number_literal
encode_number_literal(enc, number, needs_value) ==
    IF ~needs_value THEN enc ELSE push(enc, Inst("Integer", number.v))

\* Encoder::encode_ident (no import is declared in the modelled files)
encode_ident(enc, ident, needs_value) ==
    IF ~needs_value \/ ~Ok(enc) THEN enc
    ELSE IF ~enc.locals.locals[ident.n].bound THEN Fail(enc, "MissingLocal")
    ELSE push([enc EXCEPT !.references_at =
                              @ \o enc.locals.locals[ident.n].references_at],
              Inst("Copy", enc.locals.locals[ident.n].offset))

\* Encoder::encode_ref: the span of `&x` is recorded by the name it refers to.
encode_ref(enc, expr) ==
    IF ~Ok(enc) THEN enc
    ELSE IF expr.k # "Ident" THEN Fail(enc, "UnsupportedRef")
    ELSE IF ~enc.locals.locals[expr.n].bound THEN Fail(enc, "MissingLocal")
    ELSE push([enc EXCEPT !.references_at = Append(@, expr.n)],
              Inst("Ptr", enc.locals.locals[expr.n].offset))

\* `if !needs_value.0 { push(Inst::Pop) }`
pop_unless(enc, needs_value) == IF ~needs_value THEN push(enc, Inst("Pop", 0)) ELSE enc

\* `if needs_value.0 { push(Inst::Unit) }`
unit_if(enc, needs_value) == IF needs_value THEN push(enc, Inst("Unit", 0)) ELSE enc

\* Encoder::encode_expr_unary
encode_expr_unary(enc, expr_unary, needs_value) ==
    LET op(e) ==
            IF expr_unary.n = "Not" THEN push(e, Inst("Not", 0))
            ELSE IF expr_unary.n = "Deref" THEN push(e, Inst("Deref", 0))
            ELSE Fail(e, "UnsupportedUnaryOp")
    IN  IF expr_unary.n = "Ref" THEN encode_ref(enc, expr_unary.a[1])
        ELSE pop_unless(op(encode_expr(enc, expr_unary.a[1], TRUE)), needs_value)

\* C21 mutant: only an identifier is a target.
encode_assign_target_ident_only(enc, expr, first_level) ==
    IF ~Ok(enc) THEN enc
    ELSE IF expr.k = "Ident" THEN encode_ident(enc, expr, TRUE)
    ELSE Fail(enc, "UnsupportedAssignExpr")

\* Encoder::encode_assign_target
encode_assign_target(enc, expr, first_level) ==
    LET deref(e) == IF ~first_level THEN push(e, Inst("Deref", 0)) ELSE e
    IN  IF ~Ok(enc) THEN enc
        ELSE IF expr.k = "Ident" THEN encode_ident(enc, expr, TRUE)
        ELSE IF expr.k = "ExprUnary" /\ expr.n = "Deref"
        THEN deref(encode_assign_target(enc, expr.a[1], FALSE))
        ELSE Fail(enc, "UnsupportedAssignExpr")

\* Encoder::encode_assign
encode_assign(enc, lhs, rhs, needs_value) ==
    LET replace(e) ==
            IF ~Ok(e) THEN e
            ELSE IF ~e.locals.locals[lhs.n].bound THEN Fail(e, "MissingLocal")
            ELSE push([e EXCEPT !.locals.locals[lhs.n].references_at =
                                    @ \o e.references_at],
                      Inst("Replace", e.locals.locals[lhs.n].offset))
    IN  IF lhs.k = "Ident"
        THEN unit_if(replace(encode_expr(Clear(enc), rhs, TRUE)), needs_value)
        ELSE unit_if(push(encode_assign_target(encode_expr(enc, rhs, TRUE), lhs, TRUE),
                          Inst("ReplaceDeref", 0)),
                     needs_value)

BinaryInsts == {"Add", "Sub", "Div", "Mul", "Eq", "Neq", "Lt", "Gt", "Lte", "Gte", "Is"}

\* Encoder::encode_expr_binary
encode_expr_binary(enc, expr_binary, needs_value) ==
    LET op(e) ==
            IF expr_binary.n \in BinaryInsts THEN push(e, Inst(expr_binary.n, 0))
            ELSE Fail(e, "UnsupportedBinaryOp")
    IN  IF expr_binary.n = "Assign"
        THEN encode_assign(enc, expr_binary.a[1], expr_binary.a[2], needs_value)
        ELSE pop_unless(op(encode_expr(encode_expr(enc, expr_binary.a[1], TRUE),
                                       expr_binary.a[2], TRUE)),
                        needs_value)

\* Encoder::encode_let
encode_let(enc, let_, needs_value) ==
    LET declare(e, d) ==
            IF ~Ok(e) THEN e
            ELSE IF d.replaced THEN push(e, Inst("Replace", d.offset))
            ELSE [e EXCEPT !.locals = d.locals]
        decl(e) == declare(e, decl_var(e.locals, let_.n, e.references_at))
    IN  unit_if(decl(encode_expr(Clear(enc), let_.a[1], TRUE)), needs_value)

\* Encoder::encode_index_get
encode_index_get(enc, index_get, needs_value) ==
    pop_unless(push(encode_expr(encode_expr(enc, index_get.a[2], TRUE),
                                index_get.a[1], TRUE),
                    Inst("IndexGet", 0)),
               needs_value)

\* Encoder::encode_index_set
encode_index_set(enc, index_set, needs_value) ==
    unit_if(push(encode_expr(encode_expr(encode_expr(enc, index_set.a[3], TRUE),
                                         index_set.a[2], TRUE),
                             index_set.a[1], TRUE),
                 Inst("IndexSet", 0)),
            needs_value)

\* Encoder::encode_call_fn with Encoder::decode_call_dest: the hash of an
\* unqualified, unimported path is the hash of the function's own name.
encode_call_fn(enc, call_fn, needs_value) ==
    pop_unless(push(encode_rev(enc, call_fn.a, Len(call_fn.a)),
                    InstCall(call_fn.n, Len(call_fn.a))),
               needs_value)

\* C39 mutant: the instance is lowered before the arguments.
encode_call_instance_fn_instance_first(enc, call_instance_fn, needs_value) ==
    pop_unless(push(encode_rev(encode_expr(enc, call_instance_fn.t[1], TRUE),
                               call_instance_fn.a, Len(call_instance_fn.a)),
                    InstCallInstance(call_instance_fn.n, Len(call_instance_fn.a))),
               needs_value)

\* Encoder::encode_call_instance_fn: the hash is the hash of the name.
encode_call_instance_fn(enc, call_instance_fn, needs_value) ==
    pop_unless(push(encode_expr(encode_rev(enc, call_instance_fn.a,
                                           Len(call_instance_fn.a)),
                                call_instance_fn.t[1], TRUE),
                    InstCallInstance(call_instance_fn.n, Len(call_instance_fn.a))),
               needs_value)

\* C4 mutant: a break takes the outermost loop's record, not the innermost.
outermost_loop(enc) == enc.loops[1]

\* `self.loops.last().copied()`
last_loop(enc) == enc.loops[Len(enc.loops)]

\* C38 mutant: the loop stack is looked at before the Needs flag.
encode_break_loop_first(enc, b, needs_value) ==
    IF ~Ok(enc) THEN enc
    ELSE IF Len(enc.loops) = 0 THEN Fail(enc, "BreakOutsideOfLoop")
    ELSE IF needs_value THEN Fail(enc, "BreakDoesNotProduceValue")
    ELSE jump(pop_locals(enc, enc.locals.var_count - last_loop(enc).var_count),
              last_loop(enc).end_label)

\* Encoder::encode_break
encode_break(enc, b, needs_value) ==
    LET vars == enc.locals.var_count - last_loop(enc).var_count
        log(e) ==
            IF ~Ok(e) THEN e
            ELSE [e EXCEPT !.breaks = Append(@,
                    [from |-> Len(enc.insts), at |-> Len(e.insts) - 1,
                     var_count |-> enc.locals.var_count, loops |-> enc.loops])]
    IN  IF ~Ok(enc) THEN enc
        ELSE IF needs_value THEN Fail(enc, "BreakDoesNotProduceValue")
        ELSE IF Len(enc.loops) = 0 THEN Fail(enc, "BreakOutsideOfLoop")
        ELSE IF vars < 0 THEN Fail(enc, "Internal")
        ELSE log(jump(pop_locals(enc, vars), last_loop(enc).end_label))

\* `self.loops.pop()` with the check of the loop count
pop_loop(enc, loop_count) ==
    IF ~Ok(enc) THEN enc
    ELSE IF Len(enc.loops) = 0 THEN Fail(enc, "Internal")
    ELSE IF loop_count # Len(enc.loops) - 1
    THEN Fail([enc EXCEPT !.loops = SubSeq(@, 1, Len(@) - 1)], "Internal")
    ELSE [enc EXCEPT !.loops = SubSeq(@, 1, Len(@) - 1)]

\* C32 mutant: the record is put under the records of the enclosing loops.
push_loop_under(enc, end_label) ==
    IF ~Ok(enc) THEN enc
    ELSE [enc EXCEPT !.loops = <<[end_label |-> end_label,
                                  var_count |-> enc.locals.var_count]>> \o @]

\* `self.loops.push(Loop { end_label, var_count: self.locals.var_count })`
push_loop(enc, end_label) ==
    IF ~Ok(enc) THEN enc
    ELSE [enc EXCEPT !.loops = Append(@, [end_label |-> end_label,
                                          var_count |-> enc.locals.var_count])]

\* C15 mutant: the jump back to the test is missing, the body runs once.
encode_while_once(enc, while_, needs_value) ==
    LET start_label == Len(enc.labels) + 1
        end_label == Len(enc.labels) + 2
        e1 == label(push_loop(new_label(new_label(enc)), end_label), start_label)
        e2 == jump_if_not(encode_expr(e1, while_.a[1], TRUE), end_label)
        e3 == encode_block(e2, while_.a[2], FALSE)
        e4 == unit_if(label(e3, end_label), needs_value)
    IN  pop_loop(e4, Len(enc.loops))

\* Encoder::encode_while
encode_while(enc, while_, needs_value) ==
    LET start_label == Len(enc.labels) + 1
        end_label == Len(enc.labels) + 2
        logged(e, inside) ==
            IF ~Ok(e) THEN e
            ELSE [e EXCEPT !.looped = Append(@,
                    [form |-> "While", before |-> enc.loops, inside |-> inside,
                     after |-> e.loops, var_count |-> enc.locals.var_count,
                     end_label |-> end_label,
                     start |-> e.labels[start_label], end |-> e.labels[end_label]])]
        cond(e1) == jump_if_not(encode_expr(e1, while_.a[1], TRUE), end_label)
        body(e2) == jump(encode_block(e2, while_.a[2], FALSE), start_label)
        lowered(e1) ==
            logged(pop_loop(unit_if(label(body(cond(e1)), end_label), needs_value),
                            Len(enc.loops)),
                   e1.loops)
    IN  lowered(label(push_loop(new_label(new_label(enc)), end_label), start_label))

\* <ast::ExprLoop as Assemble>::assemble; the guard returned by the push
\* removes the loop record when it is dropped at the end of the function.
encode_loop(enc, loop, needs_value) ==
    LET start_label == Len(enc.labels) + 1
        end_label == Len(enc.labels) + 2
        drop_guard(e) == [e EXCEPT !.loops = enc.loops]
        logged(e, inside) ==
            IF ~Ok(e) THEN e
            ELSE [e EXCEPT !.looped = Append(@,
                    [form |-> "ExprLoop", before |-> enc.loops, inside |-> inside,
                     after |-> e.loops, var_count |-> enc.locals.var_count,
                     end_label |-> end_label,
                     start |-> e.labels[start_label], end |-> e.labels[end_label]])]
        body(e1) == jump(encode_block(e1, loop.a[1], FALSE), start_label)
        lowered(e1) == logged(drop_guard(label(body(e1), end_label)), e1.loops)
    IN  lowered(label(push_loop(new_label(new_label(enc)), end_label), start_label))

\* The loop over `expr_if.expr_else_ifs` of Encoder::encode_expr_if: a fresh
\* label, the condition and the jump for each branch.
encode_else_if_conditions(enc, expr_if, needs_value, i) ==
    LET cond(e) == jump_if(encode_expr(e, expr_if.a[1 + 2 * i], needs_value),
                           Len(enc.labels) + 1)
    IN  IF 2 + 2 * i > Len(expr_if.a) THEN enc
        ELSE encode_else_if_conditions(cond(new_label(enc)), expr_if, needs_value, i + 1)

\* Encoder::encode_expr_if
encode_expr_if(enc, expr_if, needs_value) ==
    LET n_else_ifs == (Len(expr_if.a) - 2) \div 2
        then_label == Len(enc.labels) + 1
        end_label == Len(enc.labels) + 2
        first_branch_label == Len(enc.labels) + 3
        fallback(e) ==
            IF expr_if.t # <<>> THEN encode_block(e, expr_if.t[1], needs_value)
            ELSE unit_if(e, needs_value)
        first_branch(e) ==
            IF n_else_ifs = 0 THEN e
            ELSE IF n_else_ifs > 1
            THEN jump(encode_block(label(jump(e, end_label), first_branch_label),
                                   expr_if.a[4], needs_value),
                      end_label)
            ELSE encode_block(label(jump(e, end_label), first_branch_label),
                              expr_if.a[4], needs_value)
        e1 == jump_if(encode_expr(new_label(new_label(enc)), expr_if.a[1], TRUE),
                      then_label)
        e2 == jump(fallback(encode_else_if_conditions(e1, expr_if, needs_value, 1)),
                   end_label)
        e3 == encode_block(label(e2, then_label), expr_if.a[2], needs_value)
    IN  label(first_branch(e3), end_label)

\* Encoder::encode_expr
encode_expr(enc, expr, needs_value) ==
    IF ~Ok(enc) THEN enc
    ELSE CASE expr.k = "While" -> encode_while(enc, expr, needs_value)
           [] expr.k = "ExprLoop" -> encode_loop(enc, expr, needs_value)
           [] expr.k = "Let" -> encode_let(enc, expr, needs_value)
           [] expr.k = "IndexSet" -> encode_index_set(enc, expr, needs_value)
           [] expr.k = "Ident" -> encode_ident(enc, expr, needs_value)
           [] expr.k = "CallFn" -> encode_call_fn(enc, expr, needs_value)
           [] expr.k = "CallInstanceFn" ->
                  encode_call_instance_fn(enc, expr, needs_value)
           [] expr.k = "ExprUnary" -> encode_expr_unary(enc, expr, needs_value)
           [] expr.k = "ExprBinary" -> encode_expr_binary(enc, expr, needs_value)
           [] expr.k = "ExprIf" -> encode_expr_if(enc, expr, needs_value)
           [] expr.k = "UnitLiteral" -> encode_unit_literal(enc, expr)
           [] expr.k = "BoolLiteral" -> encode_bool_literal(enc, expr)
           [] expr.k = "NumberLiteral" -> encode_number_literal(enc, expr, needs_value)
           [] expr.k = "ArrayLiteral" -> encode_array_literal(enc, expr, needs_value)
           [] expr.k = "ObjectLiteral" -> encode_object_literal(enc, expr, needs_value)
           [] expr.k = "CharLiteral" -> encode_char_literal(enc, expr, needs_value)
           [] expr.k = "StringLiteral" -> encode_string_literal(enc, expr, needs_value)
           [] expr.k = "IndexGet" -> encode_index_get(enc, expr, needs_value)
           [] expr.k = "Break" -> encode_break(enc, expr, needs_value)

\* The parameter loop of Encoder::encode_fn_decl:
\* `for arg in fn_decl.args.items.iter().rev() { self.locals.new_local(..)? }`
RECURSIVE declare_args(_, _, _)
declare_args(enc, args, i) ==
    LET declared(d) ==
            IF d.conflict THEN Fail([enc EXCEPT !.locals = d.locals], "VariableConflict")
            ELSE [enc EXCEPT !.locals = d.locals]
    IN  IF i < 1 \/ ~Ok(enc) THEN enc
        ELSE declare_args(declared(new_local(enc.locals, args[i], <<>>)), args, i - 1)

\* The position and the variable count after a statement (extra = 0) or
\* after the tail expression (extra = 1) of a function body.
mark(enc, extra, form) ==
    IF ~Ok(enc) THEN enc
    ELSE [enc EXCEPT !.marks = Append(@,
            [at |-> Len(enc.insts), vars |-> enc.locals.var_count,
             extra |-> extra, form |-> form])]

\* The statement loop of Encoder::encode_fn_decl.
RECURSIVE encode_fn_stmts(_, _, _)
encode_fn_stmts(enc, exprs, i) ==
    IF i > Len(exprs) THEN enc
    ELSE encode_fn_stmts(mark(encode_expr(enc, exprs[i], FALSE), 0, exprs[i].k),
                         exprs, i + 1)

\* `clean_up_locals(self.locals.var_count); push(Inst::Return)`
return_value(enc) ==
    IF ~Ok(enc) THEN enc
    ELSE push(clean_up_locals(enc, enc.locals.var_count), Inst("Return", 0))

\* C3 mutant: the locals are popped but no ReturnUnit is emitted.
return_unit_missing(enc) ==
    IF ~Ok(enc) THEN enc ELSE pop_locals(enc, enc.locals.var_count)

\* `pop_locals(self.locals.var_count); push(Inst::ReturnUnit)`
return_unit(enc) ==
    IF ~Ok(enc) THEN enc
    ELSE push(pop_locals(enc, enc.locals.var_count), Inst("ReturnUnit", 0))

\* C9 mutant: the parameters are declared first to last.
RECURSIVE declare_args_forward(_, _, _)
declare_args_forward(enc, args, i) ==
    LET declared(d) ==
            IF d.conflict THEN Fail([enc EXCEPT !.locals = d.locals], "VariableConflict")
            ELSE [enc EXCEPT !.locals = d.locals]
    IN  IF i > Len(args) \/ ~Ok(enc) THEN enc
        ELSE declare_args_forward(declared(new_local(enc.locals, args[i], <<>>)),
                                  args, i + 1)

prologue_forward(enc, fn_decl) ==
    LET logged(e) == [e EXCEPT !.prologue = e.locals]
    IN logged(declare_args_forward(enc, fn_decl.args, 1))

\* `for arg in args.iter().rev() { new_local(arg)? }`, the locals logged.
prologue(enc, fn_decl) ==
    LET logged(e) == [e EXCEPT !.prologue = e.locals]
    IN logged(declare_args(enc, fn_decl.args, Len(fn_decl.args)))

\* C8 mutant: an empty body takes the general path, which pops the locals.
encode_fn_decl_no_early_return(enc, fn_decl) ==
    return_unit(prologue(enc, fn_decl))

\* Encoder::encode_fn_decl
encode_fn_decl(enc, fn_decl) ==
    LET tail(e) ==
            return_value(check_references(
                mark(encode_expr(Clear(e), fn_decl.body.t[1], TRUE),
                     1, fn_decl.body.t[1].k),
                TRUE))
    IN  IF fn_decl.body.a = <<>> /\ fn_decl.body.t = <<>>
        THEN push(prologue(enc, fn_decl), Inst("ReturnUnit", 0))
        ELSE IF fn_decl.body.t # <<>>
        THEN tail(encode_fn_stmts(prologue(enc, fn_decl), fn_decl.body.a, 1))
        ELSE return_unit(encode_fn_stmts(prologue(enc, fn_decl), fn_decl.body.a, 1))

(***************************************************************************)
(* The unit (st::Unit): one instruction vector for all functions and the  *)
(* function table.  Linking happens when a function is added.             *)
(***************************************************************************)
\* c1 and c2 name the functions closures are lifted to.
FnNames == {"main", "g", "c1", "c2"}

UnitNew ==
    [insts |-> <<>>,
     functions |-> [f \in FnNames |-> [defined |-> FALSE, entry |-> 0, args |-> 0, len |-> 0]]]

\* Every label a jump of the assembly refers to has been committed.
LabelsResolved(enc) ==
    \A p \in 1..Len(enc.insts) :
        enc.insts[p].op \in JumpOps => enc.labels[enc.insts[p].a] # -1

\* C5 mutant: the label's index is stored as it is, not as a distance.
Linked_absolute(enc) ==
    [p \in 1..Len(enc.insts) |->
        IF enc.insts[p].op \in JumpOps
        THEN [enc.insts[p] EXCEPT !.a = enc.labels[enc.insts[p].a]]
        ELSE enc.insts[p]]

\* Link: each jump's label becomes the signed distance from the jump's
\* successor (index p, counting from 0) to the label's index.
Linked(enc) ==
    [p \in 1..Len(enc.insts) |->
        IF enc.insts[p].op \in JumpOps
        THEN [enc.insts[p] EXCEPT !.a = enc.labels[enc.insts[p].a] - p]
        ELSE enc.insts[p]]

\* Unit::new_function
new_function(u, name, count, enc) ==
    IF u.functions[name].defined THEN [unit |-> u, err |-> "FunctionConflict"]
    ELSE IF ~LabelsResolved(enc) THEN [unit |-> u, err |-> "MissingLabel"]
    ELSE [unit |-> [insts |-> u.insts \o Linked(enc),
                    functions |-> [u.functions EXCEPT ![name] =
                        [defined |-> TRUE, entry |-> Len(u.insts), args |-> count,
                         len |-> Len(enc.insts)]]],
          err |-> "none"]

(***************************************************************************)
(* Runtime values (ValuePtr): a tag and a payload.  An array lives in a   *)
(* heap slot and the value holds the slot.                                 *)
(***************************************************************************)
VUnit == [t |-> "Unit", v |-> 0]
VBool(b) == [t |-> "Bool", v |-> IF b THEN 1 ELSE 0]
VInteger(i) == [t |-> "Integer", v |-> i]
VPtr(k) == [t |-> "Ptr", v |-> k]
VArray(slot) == [t |-> "Array", v |-> slot]
VFn(slot) == [t |-> "Fn", v |-> slot]
VTuple(slot) == [t |-> "Tuple", v |-> slot]
VFuture(slot) == [t |-> "Future", v |-> slot]
VChar(c) == [t |-> "Char", v |-> c]
VObject(slot) == [t |-> "Object", v |-> slot]

\* The static strings of a unit, and a string value by its static slot.
Strings == <<"a", "b">>
VString(string) == [t |-> "String", v |-> CHOOSE i \in 1..Len(Strings) : Strings[i] = string]

\* Two's-complement wrap of an integer to IntBits bits.
Pow2(n) == IF n = 0 THEN 1 ELSE LET h[i \in 0..n] == IF i = 0 THEN 1 ELSE 2 * h[i - 1] IN h[n]
Wrap(i) == ((i + Pow2(IntBits - 1)) % Pow2(IntBits)) - Pow2(IntBits - 1)

\* at_call is a history variable: for every frame a Call has constructed and
\* no return has popped yet, the machine as it stood at the Call.
\* access holds, for every heap slot, the borrows the host holds on it, and
\* the outcome of the host's last request.
(***************************************************************************)
(* Binary operators and their precedence (ast/expr_binary.rs), and the     *)
(* parsing of a chain of binary operations by precedence climbing.         *)
(***************************************************************************)
AssignOps == {"Assign", "AddAssign", "SubAssign", "MulAssign", "DivAssign"}
CompareOps == {"Eq", "Neq", "Gt", "Lt", "Gte", "Lte"}
BinOps ==
    {"Add", "Sub", "Div", "Mul", "Rem", "Is", "IsNot", "And", "Or"}
    \cup AssignOps \cup CompareOps

\* Every operator with the precedence of `+`.
precedence_flat(op) == 5

\* BinOp::precedence
precedence(op) ==
    CASE op \in AssignOps -> 1
      [] op = "Or" -> 2
      [] op = "And" -> 3
      [] op \in CompareOps -> 4
      [] op \in {"Add", "Sub"} -> 5
      [] op \in {"Div", "Mul", "Rem"} -> 6
      [] op \in {"Is", "IsNot"} -> 7

\* BinOp::is_assoc
is_assoc(op, other) ==
    <<op, other>> \in {<<"Mul", "Mul">>, <<"Mul", "Div">>, <<"Div", "Mul">>,
                       <<"Add", "Add">>, <<"Sub", "Sub">>, <<"Add", "Sub">>,
                       <<"Sub", "Add">>}

\* The tokens of a chain: number literals with operators between them.
Number(n) == [kind |-> "Number", n |-> n, op |-> "none"]
Op(op) == [kind |-> "BinOp", n |-> 0, op |-> op]

\* What the parser has so far: the expression, the position of the next
\* token, and the error if there is one.
Parsed(expr, pos, err) == [expr |-> expr, pos |-> pos, err |-> err]

RECURSIVE parse_expr_binary(_, _, _, _)
RECURSIVE parse_rhs(_, _, _, _)

\* After the right-hand side: the operation is built and the loop goes on.
parse_built(tokens, lhs, op, r, min_precedence) ==
    IF r.err # "none" THEN r
    ELSE parse_expr_binary(tokens, Binary(op, lhs, r.expr), r.pos, min_precedence)

\* After an operation of higher precedence was taken into the right-hand
\* side: the right-hand side is looked at again.
parse_rhs_again(tokens, op, r) ==
    IF r.err # "none" THEN r ELSE parse_rhs(tokens, op, r.expr, r.pos)

\* The loop over the operators that follow the right-hand side of `op`.
parse_rhs(tokens, op, rhs, pos) ==
    IF pos > Len(tokens) THEN Parsed(rhs, pos, "none")
    ELSE IF precedence(tokens[pos].op) > precedence(op)
         THEN parse_rhs_again(tokens, op,
                  parse_expr_binary(tokens, rhs, pos, precedence(tokens[pos].op)))
    ELSE IF precedence(tokens[pos].op) = precedence(op) /\ ~is_assoc(op, tokens[pos].op)
         THEN Parsed(rhs, pos, "PrecedenceGroupRequired")
    ELSE Parsed(rhs, pos, "none")

\* Precedence climbing from the left-hand side `lhs`: operators of at least
\* `min_precedence` are taken.
parse_expr_binary(tokens, lhs, pos, min_precedence) ==
    IF pos > Len(tokens) \/ precedence(tokens[pos].op) < min_precedence
    THEN Parsed(lhs, pos, "none")
    ELSE parse_built(tokens, lhs, tokens[pos].op,
                     parse_rhs(tokens, tokens[pos].op,
                               NumberLiteral(tokens[pos + 1].n), pos + 2),
                     min_precedence)

\* The expression of a chain of tokens.
parse_expr(tokens) == parse_expr_binary(tokens, NumberLiteral(tokens[1].n), 2, 0)

(***************************************************************************)
(* The scope stack of the assembler (compiler/scopes.rs).                  *)
(***************************************************************************)
MaxScopes == 3
MaxPushes == 4
MaxVars == 3

\* The names and the spans of the variables declared in the scopes.
VarNames == {"x", "y"}
Spans == {1, 2}

\* Var { offset, name, span }; NoVar for a name that `locals` does not hold.
Var(offset, name, span) == [bound |-> TRUE, offset |-> offset, name |-> name, span |-> span]
NoVar == [bound |-> FALSE, offset |-> 0, name |-> "", span |-> 0]

\* Scope::new
Scope_new ==
    [locals |-> [name \in VarNames |-> NoVar], anon |-> <<>>,
     total_var_count |-> 0, local_var_count |-> 0]

\* C36 mutant: the child starts counting at zero.
Scope_child_from_zero(scope) ==
    [locals |-> [name \in VarNames |-> NoVar], anon |-> <<>>,
     total_var_count |-> 0, local_var_count |-> 0]

\* Scope::child
Scope_child(scope) ==
    [locals |-> [name \in VarNames |-> NoVar], anon |-> <<>>,
     total_var_count |-> scope.total_var_count, local_var_count |-> 0]

\* What a declaration did: the scope after it and what it returned.
VarDeclared(scope, ok, offset, err, existing_span) ==
    [scope |-> scope, ok |-> ok, offset |-> offset, err |-> err,
     existing_span |-> existing_span]

\* Scope::decl_var: the name is bound to a new slot, whatever it was bound to.
Scope_decl_var(scope, name, span) ==
    VarDeclared([scope EXCEPT !.locals[name] = Var(scope.total_var_count, name, span),
                           !.total_var_count = @ + 1,
                           !.local_var_count = @ + 1],
             TRUE, scope.total_var_count, "none", 0)

\* Scope::new_var: the counters are advanced and the name is inserted
\* before the value the insertion replaced is looked at.
Scope_new_var(scope, name, span) ==
    IF scope.locals[name].bound
    THEN VarDeclared(Scope_decl_var(scope, name, span).scope, FALSE, 0,
                  "VariableConflict", scope.locals[name].span)
    ELSE Scope_decl_var(scope, name, span)

\* Scope::decl_anon
Scope_decl_anon(scope, span) ==
    VarDeclared([scope EXCEPT !.anon = Append(@, [offset |-> scope.total_var_count,
                                               span |-> span]),
                           !.total_var_count = @ + 1,
                           !.local_var_count = @ + 1],
             TRUE, scope.total_var_count, "none", 0)

\* Scope::get
Scope_get(scope, name) == scope.locals[name]

\* Scopes::new
Scopes_new == <<Scope_new>>

\* The result of an operation on the scope stack: the stack after it, and
\* what it returned.
ScopesResult(stack, ok, returned, err) ==
    [scopes |-> stack, ok |-> ok, returned |-> returned, err |-> err]

\* Scopes::push: the guard is the number of scopes after the push.
Scopes_push(stack, scope) ==
    ScopesResult(Append(stack, scope), TRUE, Len(stack) + 1, "none")

\* Scopes::pop_unchecked
Scopes_pop_unchecked(stack) ==
    IF stack = <<>> THEN ScopesResult(stack, FALSE, Scope_new, "Internal")
    ELSE ScopesResult(SubSeq(stack, 1, Len(stack) - 1), TRUE, stack[Len(stack)], "none")

\* Scopes::pop without the comparison with the guard.
Scopes_pop_any(stack, expected) == Scopes_pop_unchecked(stack)

\* Scopes::pop
Scopes_pop(stack, expected) ==
    IF Len(stack) # expected THEN ScopesResult(stack, FALSE, Scope_new, "Internal")
    ELSE Scopes_pop_unchecked(stack)

\* Scopes::pop_last
Scopes_pop_last(stack) == Scopes_pop(stack, 1)

\* What a lookup returned: the variable, or the error with the name and the
\* span of the lookup.
Found(var) == [ok |-> TRUE, var |-> var, err |-> "none", name |-> var.name, span |-> var.span]
Missing(name, span) ==
    [ok |-> FALSE, var |-> NoVar, err |-> "MissingLocal", name |-> name, span |-> span]

RECURSIVE get_var_from(_, _, _, _)
\* `for scope in self.scopes.iter().rev()`, from the scope at index i down.
get_var_from(stack, name, span, i) ==
    IF i = 0 THEN Missing(name, span)
    ELSE IF Scope_get(stack[i], name).bound THEN Found(Scope_get(stack[i], name))
    ELSE get_var_from(stack, name, span, i - 1)

\* C35 mutant: the scopes are searched from the root up.
RECURSIVE get_var_outermost(_, _, _, _)
get_var_outermost(stack, name, span, i) ==
    IF i > Len(stack) THEN Missing(name, span)
    ELSE IF Scope_get(stack[i], name).bound THEN Found(Scope_get(stack[i], name))
    ELSE get_var_outermost(stack, name, span, i + 1)

Scopes_get_var_outermost(stack, name, span) == get_var_outermost(stack, name, span, 1)

\* Scopes::get_var
Scopes_get_var(stack, name, span) == get_var_from(stack, name, span, Len(stack))

\* The scope stack with its bookkeeping: `pushed` numbers the scopes of the
\* stack in the order they were pushed (the root scope is 0), `held` are
\* the guards returned by push and not yet given to pop, each with the
\* number of the scope it was returned for, `unchecked` tells that a scope
\* was removed without its guard, and `log` are the last two operations.
ScopesIdle ==
    [scopes |-> Scopes_new, pushed |-> <<0>>, next |-> 1, held |-> {},
     unchecked |-> FALSE, log |-> <<>>]

\* No host conversion is in progress.
NoConversion == [op |-> "none"]

(***************************************************************************)
(* Host tuples (runestick/src/tuple.rs).  A runtime tuple is the value     *)
(* with its elements; a host value is a value of one of the host types     *)
(* i64, bool and Tuple, and a host tuple is a sequence of host values.     *)
(***************************************************************************)
MaxArity == 3

ValueTuple(items) == [t |-> "Tuple", items |-> items]

HostTypes == {"i64", "bool", "Tuple"}
HostInteger(n) == [ty |-> "i64", v |-> n, items |-> <<>>]
HostBool(b) == [ty |-> "bool", v |-> IF b THEN 1 ELSE 0, items |-> <<>>]
HostTuple(items) == [ty |-> "Tuple", v |-> 0, items |-> items]

\* Result<T, VmError>
ConvOk(value) ==
    [ok |-> TRUE, value |-> value, err |-> "none", actual |-> 0, expected |-> 0]
ConvErr(err, actual, expected) ==
    [ok |-> FALSE, value |-> <<>>, err |-> err, actual |-> actual, expected |-> expected]

\* <Tuple as FromValue>::from_value
Tuple_from_value(value) ==
    CASE value.t = "Unit" -> ConvOk(HostTuple(<<>>))
      [] value.t = "Tuple" -> ConvOk(HostTuple(value.items))
      [] OTHER -> ConvErr("Expected", 0, 0)

\* <$ty>::from_value for the element types
elem_from_value(ty, value) ==
    CASE ty = "Tuple" -> Tuple_from_value(value)
      [] ty = "i64" -> IF value.t = "Integer" THEN ConvOk(HostInteger(value.v))
                       ELSE ConvErr("Expected", 0, 0)
      [] ty = "bool" -> IF value.t = "Bool" THEN ConvOk(HostBool(value.v = 1))
                        ELSE ConvErr("Expected", 0, 0)

\* $var.to_value() for the element types
elem_to_value(h) ==
    CASE h.ty = "Tuple" -> ValueTuple(h.items)
      [] h.ty = "i64" -> [t |-> "Integer", v |-> h.v]
      [] h.ty = "bool" -> [t |-> "Bool", v |-> h.v]

\* The elements in order, each converted with `?`: the first error ends the
\* conversion.
elems_from_value(types, items) ==
    IF \A i \in 1..Len(types) : elem_from_value(types[i], items[i]).ok
    THEN ConvOk([i \in 1..Len(types) |-> elem_from_value(types[i], items[i]).value])
    ELSE elem_from_value(
             types[CHOOSE i \in 1..Len(types) :
                     /\ ~elem_from_value(types[i], items[i]).ok
                     /\ \A j \in 1..(i - 1) : elem_from_value(types[j], items[j]).ok],
             items[CHOOSE i \in 1..Len(types) :
                     /\ ~elem_from_value(types[i], items[i]).ok
                     /\ \A j \in 1..(i - 1) : elem_from_value(types[j], items[j]).ok])

\* from_value without the comparison of the lengths: the iterator runs out,
\* or the elements left over are dropped.
from_value_unchecked(value, types) ==
    IF value.t # "Tuple" THEN ConvErr("Expected", 0, 0)
    ELSE IF Len(value.items) < Len(types) THEN ConvErr("IterationError", 0, 0)
    ELSE elems_from_value(types, value.items)

\* impl_tuple!: <($ty,)* as FromValue>::from_value, $count = Len(types)
from_value(value, types) ==
    IF value.t # "Tuple" THEN ConvErr("Expected", 0, 0)
    ELSE IF Len(value.items) # Len(types)
         THEN ConvErr("ExpectedTupleLength", Len(value.items), Len(types))
    ELSE elems_from_value(types, value.items)

\* impl_tuple!: <($ty,)* as ToValue>::to_value
to_value(hs) == ConvOk(ValueTuple([i \in 1..Len(hs) |-> elem_to_value(hs[i])]))

VARIABLES file, phase, next_fn, unit, encoders, cerr,
          ip, stack, frames, heap, status, result, at_call, access,
          scopes, host, source

vars == <<file, phase, next_fn, unit, encoders, cerr,
          ip, stack, frames, heap, status, result, at_call, access,
          scopes, host, source>>
lib_vars == <<scopes, host, source>>
compiler_vars == <<file, phase, next_fn, unit, encoders, cerr, lib_vars>>

\* The scope stack, the host conversions and the parser are not in use.
LibIdle == scopes = ScopesIdle /\ host = NoConversion /\ source = <<>>
vm_vars == <<ip, stack, frames, heap, status, result, at_call, access>>

(***************************************************************************)
(* The compiler as a process: ParseAll::compile takes the functions of    *)
(* the file in order, encodes each in a fresh encoder and adds it to the  *)
(* unit; the first error ends the compilation.                            *)
(***************************************************************************)
\* The body of the loop `for f in file.functions` of ParseAll::compile.
Compiled(f, enc, r) ==
    /\ encoders' = Append(encoders, enc)
    /\ IF ~Ok(enc)
       THEN /\ phase' = "failed" /\ cerr' = enc.err
            /\ UNCHANGED <<unit, next_fn>>
       ELSE IF r.err # "none"
       THEN /\ phase' = "failed" /\ cerr' = r.err
            /\ UNCHANGED <<unit, next_fn>>
       ELSE /\ unit' = r.unit
            /\ next_fn' = next_fn + 1
            /\ phase' = IF next_fn = Len(file) THEN "compiled" ELSE "compiling"
            /\ UNCHANGED cerr

\* C11 mutant: every function is registered as taking no argument.
Encoded_without_count(f, enc) == Compiled(f, enc, new_function(unit, f.name, 0, enc))

Encoded(f, enc) == Compiled(f, enc, new_function(unit, f.name, Len(f.args), enc))

CompileFn ==
    /\ phase = "compiling"
    /\ next_fn <= Len(file)
    /\ Encoded(file[next_fn], encode_fn_decl(EncoderNew, file[next_fn]))
    /\ UNCHANGED <<file, vm_vars, lib_vars>>

(***************************************************************************)
(* The stack machine.                                                      *)
(***************************************************************************)
\* The slots of the managed heap.
Slots == 1..MaxHeap

\* Nothing is borrowed and nothing has been requested.
NoAccess ==
    [held |-> [slot \in Slots |-> [shared |-> 0, exclusive |-> 0]], last |-> "none"]

ArgValues == {VInteger(0), VInteger(1)}

Cur == unit.insts[ip + 1]
At(ops) == status = "running" /\ ip >= 0 /\ ip < Len(unit.insts) /\ Cur.op \in ops
Base == frames[Len(frames)].base_pointer
Depth == Len(stack)
Top == stack[Len(stack)]
Under(k) == SubSeq(stack, 1, Len(stack) - k)

VmError(e) ==
    /\ status' = "error"
    /\ result' = [t |-> e, v |-> 0]
    /\ UNCHANGED <<ip, stack, frames, heap, at_call, access>>

Step(new_stack) ==
    /\ stack' = new_stack
    /\ ip' = ip + 1
    /\ UNCHANGED <<frames, heap, status, result, at_call, access>>

\* The host calls the entry function with one value for each parameter.
HostCall ==
    /\ phase = "compiled"
    /\ status = "idle"
    /\ unit.functions["main"].defined
    /\ \E args \in [1..unit.functions["main"].args -> ArgValues] :
          /\ stack' = args
          /\ frames' = <<[return_ip |-> -1, base_pointer |-> 0]>>
          /\ ip' = unit.functions["main"].entry
          /\ status' = "running"
    /\ UNCHANGED <<compiler_vars, heap, result, at_call, access>>

\* Inst::Push (the literal instructions Unit, Bool, Integer, Char, String)
VmPush ==
    /\ At({"Unit", "Bool", "Integer", "Char", "String"})
    /\ Depth < MaxStack
    /\ Step(Append(stack, CASE Cur.op = "Unit" -> VUnit
                            [] Cur.op = "Bool" -> VBool(Cur.a = 1)
                            [] Cur.op = "Integer" -> VInteger(Wrap(Cur.a))
                            [] Cur.op = "Char" -> VChar(Cur.a)
                            [] Cur.op = "String" -> VString(Cur.h)))
    /\ UNCHANGED compiler_vars

\* Inst::Pop
VmPop ==
    /\ At({"Pop"})
    /\ IF Depth < 1 THEN VmError("StackEmpty") ELSE Step(Under(1))
    /\ UNCHANGED compiler_vars

\* Inst::PopN
VmPopN ==
    /\ At({"PopN"})
    /\ IF Depth < Cur.a THEN VmError("StackEmpty") ELSE Step(Under(Cur.a))
    /\ UNCHANGED compiler_vars

\* Inst::Clean: keep the top, pop `count` values under it.
VmClean ==
    /\ At({"Clean"})
    /\ IF Depth < Cur.a + 1 THEN VmError("StackEmpty")
       ELSE Step(Append(Under(Cur.a + 1), Top))
    /\ UNCHANGED compiler_vars

\* C12 mutant: the offset is taken from the bottom of the stack.
SlotAt_absolute(offset) == offset

\* The stack location an offset of the current call frame names.
SlotAt(offset) == Base + offset

\* Inst::Copy
VmCopy ==
    /\ At({"Copy"})
    /\ Depth < MaxStack
    /\ IF SlotAt(Cur.a) >= Depth THEN VmError("StackOutOfBounds")
       ELSE Step(Append(stack, stack[SlotAt(Cur.a) + 1]))
    /\ UNCHANGED compiler_vars

\* Inst::Move: the value is pushed and Unit is left in its slot.
VmMove ==
    /\ At({"Move"})
    /\ Depth < MaxStack
    /\ IF SlotAt(Cur.a) >= Depth THEN VmError("StackOutOfBounds")
       ELSE Step(Append([stack EXCEPT ![SlotAt(Cur.a) + 1] = VUnit],
                        stack[SlotAt(Cur.a) + 1]))
    /\ UNCHANGED compiler_vars

\* Inst::Drop: the slot is cleaned out, the stack keeps its depth.
VmDrop ==
    /\ At({"Drop"})
    /\ IF SlotAt(Cur.a) >= Depth THEN VmError("StackOutOfBounds")
       ELSE Step([stack EXCEPT ![SlotAt(Cur.a) + 1] = VUnit])
    /\ UNCHANGED compiler_vars

\* Inst::Replace
VmReplace ==
    /\ At({"Replace"})
    /\ IF Depth < 1 THEN VmError("StackEmpty")
       ELSE IF SlotAt(Cur.a) >= Depth - 1 THEN VmError("StackOutOfBounds")
       ELSE Step([Under(1) EXCEPT ![SlotAt(Cur.a) + 1] = Top])
    /\ UNCHANGED compiler_vars

\* Inst::Ptr: a pointer to the absolute stack location of a slot of the frame.
VmPtr ==
    /\ At({"Ptr"})
    /\ Depth < MaxStack
    /\ Step(Append(stack, VPtr(Base + Cur.a)))
    /\ UNCHANGED compiler_vars

\* Inst::Deref: replace the pointer on top by the value it points to.
VmDeref ==
    /\ At({"Deref"})
    /\ IF Depth < 1 THEN VmError("StackEmpty")
       ELSE IF Top.t # "Ptr" THEN VmError("Expected")
       ELSE IF Top.v >= Depth - 1 THEN VmError("StackOutOfBounds")
       ELSE Step(Append(Under(1), stack[Top.v + 1]))
    /\ UNCHANGED compiler_vars

\* Inst::ReplaceDeref: the pointer is on top, the value under it.
VmReplaceDeref ==
    /\ At({"ReplaceDeref"})
    /\ IF Depth < 2 THEN VmError("StackEmpty")
       ELSE IF Top.t # "Ptr" THEN VmError("Expected")
       ELSE IF Top.v >= Depth - 2 THEN VmError("StackOutOfBounds")
       ELSE Step([Under(2) EXCEPT ![Top.v + 1] = stack[Depth - 1]])
    /\ UNCHANGED compiler_vars

\* Inst::Not
VmNot ==
    /\ At({"Not"})
    /\ IF Depth < 1 THEN VmError("StackEmpty")
       ELSE IF Top.t # "Bool" THEN VmError("UnsupportedOperation")
       ELSE Step(Append(Under(1), VBool(Top.v = 0)))
    /\ UNCHANGED compiler_vars

\* Division truncating towards zero, as on i64.
TruncDiv(a, b) ==
    LET q == (IF a < 0 THEN -a ELSE a) \div (IF b < 0 THEN -b ELSE b)
    IN IF (a < 0) = (b < 0) THEN q ELSE -q

\* C16 mutant: an integer result out of range is an error.
OpResult_checked(op, a, b) ==
    IF a.t # "Integer" \/ b.t # "Integer" THEN [t |-> "Error", v |-> 0]
    ELSE LET r == CASE op = "Add" -> a.v + b.v
                    [] op = "Sub" -> a.v - b.v
                    [] op = "Mul" -> a.v * b.v
                    [] OTHER -> 0
         IN IF r # Wrap(r) THEN [t |-> "Error", v |-> 0] ELSE VInteger(r)

\* The result of a binary operation, or an error tag.
OpResult(op, a, b) ==
    IF op \in {"Eq", "Neq"}
    THEN IF a.t # b.t THEN [t |-> "Error", v |-> 0]
         ELSE VBool((a.v = b.v) = (op = "Eq"))
    ELSE IF a.t # "Integer" \/ b.t # "Integer" THEN [t |-> "Error", v |-> 0]
    ELSE CASE op = "Add" -> VInteger(Wrap(a.v + b.v))
           [] op = "Sub" -> VInteger(Wrap(a.v - b.v))
           [] op = "Mul" -> VInteger(Wrap(a.v * b.v))
           [] op = "Div" -> IF b.v = 0 THEN [t |-> "Error", v |-> 0]
                            ELSE VInteger(Wrap(TruncDiv(a.v, b.v)))
           [] op = "Lt" -> VBool(a.v < b.v)
           [] op = "Gt" -> VBool(a.v > b.v)
           [] op = "Lte" -> VBool(a.v <= b.v)
           [] op = "Gte" -> VBool(a.v >= b.v)
           [] OTHER -> [t |-> "Error", v |-> 0]

\* Inst::Op: the right operand is on top, the left one under it.
VmOp ==
    /\ At(BinaryInsts)
    /\ IF Depth < 2 THEN VmError("StackEmpty")
       ELSE LET r == OpResult(Cur.op, stack[Depth - 1], Top)
            IN IF r.t = "Error" THEN VmError("UnsupportedOperation")
               ELSE Step(Append(Under(2), r))
    /\ UNCHANGED compiler_vars

\* Inst::Vec (Array in the encoder): `count` values are popped, the first
\* element from the top, and the array is put in a fresh heap slot.
VmArray ==
    /\ At({"Array"})
    /\ Len(heap) < MaxHeap
    /\ IF Depth < Cur.a THEN VmError("StackEmpty")
       ELSE /\ heap' = Append(heap, [i \in 1..Cur.a |-> stack[Depth - i + 1]])
            /\ stack' = Append(Under(Cur.a), VArray(Len(heap) + 1))
            /\ ip' = ip + 1
            /\ UNCHANGED <<frames, status, result, at_call, access>>
    /\ UNCHANGED compiler_vars

\* Inst::Object, as the encoder emits it: `count` pairs are popped, each
\* key above its value, and the object is put in a fresh heap slot.
VmObject ==
    /\ At({"Object"})
    /\ Len(heap) < MaxHeap
    /\ IF Depth < 2 * Cur.a THEN VmError("StackEmpty")
       ELSE /\ heap' = Append(heap, [i \in 1..(2 * Cur.a) |-> stack[Depth - i + 1]])
            /\ stack' = Append(Under(2 * Cur.a), VObject(Len(heap) + 1))
            /\ ip' = ip + 1
            /\ UNCHANGED <<frames, status, result, at_call, access>>
    /\ UNCHANGED compiler_vars

InBounds(target, index) ==
    /\ target.t = "Array"
    /\ index.t = "Integer"
    /\ index.v >= 0
    /\ index.v < Len(heap[target.v])

\* Inst::IndexGet: the target is on top, the index under it.
VmIndexGet ==
    /\ At({"IndexGet"})
    /\ IF Depth < 2 THEN VmError("StackEmpty")
       ELSE IF ~InBounds(Top, stack[Depth - 1]) THEN VmError("UnsupportedOperation")
       ELSE Step(Append(Under(2), heap[Top.v][stack[Depth - 1].v + 1]))
    /\ UNCHANGED compiler_vars

\* Inst::IndexSet: the target is on top, then the index, then the value.
VmIndexSet ==
    /\ At({"IndexSet"})
    /\ IF Depth < 3 THEN VmError("StackEmpty")
       ELSE IF ~InBounds(Top, stack[Depth - 1]) THEN VmError("UnsupportedOperation")
       ELSE /\ heap' = [heap EXCEPT ![Top.v][stack[Depth - 1].v + 1] = stack[Depth - 2]]
            /\ stack' = Under(3)
            /\ ip' = ip + 1
            /\ UNCHANGED <<frames, status, result, at_call, access>>
    /\ UNCHANGED compiler_vars

\* C10 mutant: the frame starts above the arguments.
CallFrame_above_args(return_ip, depth, args) ==
    [return_ip |-> return_ip, base_pointer |-> depth]

\* The frame a call constructs: it includes the last `args` entries.
CallFrame(return_ip, depth, args) ==
    [return_ip |-> return_ip, base_pointer |-> depth - args]

\* Inst::Call
VmCall ==
    /\ At({"Call"})
    /\ IF Cur.h \notin FnNames THEN VmError("MissingFunction")
       ELSE LET f == unit.functions[Cur.h]
            IN IF ~f.defined THEN VmError("MissingFunction")
               ELSE IF f.args # Cur.a THEN VmError("BadArgumentCount")
               ELSE IF Depth < Cur.a THEN VmError("StackEmpty")
               ELSE /\ frames' = Append(frames, CallFrame(ip + 1, Depth, Cur.a))
                    /\ at_call' = Append(at_call, [ip |-> ip, stack |-> stack,
                                                    frames |-> Len(frames),
                                                    args |-> Cur.a])
                    /\ ip' = f.entry
                    /\ UNCHANGED <<stack, heap, status, result, access>>
    /\ UNCHANGED compiler_vars

\* Inst::CallInstance: the instance is on top of the stack, followed by
\* `args` arguments; no instance function is installed in the context.
VmCallInstance ==
    /\ At({"CallInstance"})
    /\ IF Depth < Cur.a + 1 THEN VmError("StackEmpty")
       ELSE VmError("MissingInstanceFunction")
    /\ UNCHANGED compiler_vars

\* C14 mutant: the captured values are stored last first.
Captured_reversed(count) == [k \in 1..count |-> stack[Depth - k + 1]]

\* The `count` values on top of the stack, the deepest first.
Captured(count) == SubSeq(stack, Depth - count + 1, Depth)

\* Inst::Closure: `count` values are popped and packed with the hash of the
\* closure's function into a closure in a fresh heap slot.
VmClosure ==
    /\ At({"Closure"})
    /\ Len(heap) < MaxHeap
    /\ IF Depth < Cur.a THEN VmError("StackEmpty")
       ELSE /\ heap' = Append(heap, <<[t |-> Cur.h, v |-> Cur.a]>> \o Captured(Cur.a))
            /\ stack' = Append(Under(Cur.a), VFn(Len(heap) + 1))
            /\ ip' = ip + 1
            /\ UNCHANGED <<frames, status, result, at_call, access>>
    /\ UNCHANGED compiler_vars

\* The function a closure value calls.
FnHash(v) == heap[v.v][1].t

\* Inst::CallFn: the closure is on top, its arguments under it.  The
\* closure is popped, its environment is pushed as a tuple, and the frame
\* includes the arguments and the environment.
VmCallFn ==
    /\ At({"CallFn"})
    /\ IF Depth < Cur.a + 1 THEN VmError("StackEmpty")
       ELSE IF Top.t # "Fn" THEN VmError("Expected")
       ELSE IF FnHash(Top) \notin FnNames THEN VmError("MissingFunction")
       ELSE IF ~unit.functions[FnHash(Top)].defined THEN VmError("MissingFunction")
       ELSE IF unit.functions[FnHash(Top)].args # Cur.a THEN VmError("BadArgumentCount")
       ELSE /\ stack' = Append(Under(1), VTuple(Top.v))
            /\ frames' = Append(frames, CallFrame(ip + 1, Depth, Cur.a + 1))
            /\ at_call' = Append(at_call, [ip |-> ip, stack |-> Under(1),
                                            frames |-> Len(frames), args |-> Cur.a])
            /\ ip' = unit.functions[FnHash(Top)].entry
            /\ UNCHANGED <<heap, status, result, access>>
    /\ UNCHANGED compiler_vars

\* Inst::PushTuple: the environment on top is replaced by its content.
VmPushTuple ==
    /\ At({"PushTuple"})
    /\ Depth >= 1 /\ Top.t = "Tuple" => Depth + Len(heap[Top.v]) - 2 <= MaxStack
    /\ IF Depth < 1 THEN VmError("StackEmpty")
       ELSE IF Top.t # "Tuple" THEN VmError("Expected")
       ELSE Step(Under(1) \o Tail(heap[Top.v]))
    /\ UNCHANGED compiler_vars

\* A future in its heap slot: Pending, Ready with the value it produced, or
\* Completed once that value has been taken out of it.
Future(state, value) == <<[t |-> state, v |-> 0], value>>

\* The values a future of the host can produce.
FutureValues == {VInteger(3), VInteger(5)}

\* The host calls an entry function of one parameter with a future of its
\* own, which has produced its value already or has not.
HostCallAsync ==
    /\ phase = "compiled"
    /\ status = "idle"
    /\ unit.functions["main"].defined
    /\ unit.functions["main"].args = 1
    /\ Len(heap) < MaxHeap
    /\ \E f \in {Future("Pending", VUnit)} \cup {Future("Ready", v) : v \in FutureValues} :
          heap' = Append(heap, f)
    /\ stack' = <<VFuture(Len(heap) + 1)>>
    /\ frames' = <<[return_ip |-> -1, base_pointer |-> 0]>>
    /\ ip' = unit.functions["main"].entry
    /\ status' = "running"
    /\ UNCHANGED <<compiler_vars, result, at_call, access>>

\* Inst::Await: the future on top is polled.  A ready future gives its value,
\* which replaces it on the stack; a pending one suspends the machine, which
\* returns to its driver with ip still on the Await; polling a future that
\* has already been completed is the panic PanicReason::FutureCompleted.
VmAwait ==
    /\ At({"Await"})
    /\ IF Depth < 1 THEN VmError("StackEmpty")
       ELSE IF Top.t # "Future" THEN VmError("Expected")
       ELSE IF heap[Top.v][1].t = "Completed" THEN VmError("Panic")
       ELSE IF heap[Top.v][1].t = "Pending"
       THEN /\ status' = "pending"
            /\ UNCHANGED <<ip, stack, frames, heap, result, at_call, access>>
       ELSE /\ stack' = Append(Under(1), heap[Top.v][2])
            /\ heap' = [heap EXCEPT ![Top.v][1].t = "Completed"]
            /\ ip' = ip + 1
            /\ UNCHANGED <<frames, status, result, at_call, access>>
    /\ UNCHANGED compiler_vars

\* Outside the machine, a pending future produces its value.
Complete ==
    /\ \E slot \in 1..Len(heap) : \E v \in FutureValues :
          /\ heap[slot][1].t = "Pending"
          /\ heap' = [heap EXCEPT ![slot] = Future("Ready", v)]
    /\ UNCHANGED <<compiler_vars, ip, stack, frames, status, result, at_call, access>>

\* The driver calls the suspended machine again; the Await under ip polls
\* the future once more.
Resume ==
    /\ status = "pending"
    /\ status' = "running"
    /\ UNCHANGED <<compiler_vars, ip, stack, frames, heap, result, at_call, access>>

\* The stack a return leaves: the frame is cleared and `value` is on top.
ReturnStack(s, base_pointer, value) ==
    Append(SubSeq(s, 1, IF base_pointer < Len(s) THEN base_pointer ELSE Len(s)), value)

\* Pop the frame: back to the caller, or out of the machine with the result.
PopFrame(new_stack) ==
    /\ stack' = new_stack
    /\ frames' = SubSeq(frames, 1, Len(frames) - 1)
    /\ at_call' = SubSeq(at_call, 1, Len(at_call) - 1)
    /\ ip' = frames[Len(frames)].return_ip
    /\ IF Len(frames) = 1
       THEN /\ status' = "halted" /\ result' = new_stack[Len(new_stack)]
       ELSE UNCHANGED <<status, result>>
    /\ UNCHANGED <<heap, access>>

\* Inst::Return
VmReturn ==
    /\ At({"Return"})
    /\ IF Depth < 1 THEN VmError("StackEmpty")
       ELSE PopFrame(ReturnStack(Under(1), Base, Top))
    /\ UNCHANGED compiler_vars

\* Inst::ReturnUnit
VmReturnUnit ==
    /\ At({"ReturnUnit"})
    /\ PopFrame(ReturnStack(stack, Base, VUnit))
    /\ UNCHANGED compiler_vars

\* Inst::Jump
VmJump ==
    /\ At({"Jump"})
    /\ ip' = ip + 1 + Cur.a
    /\ UNCHANGED <<stack, frames, heap, status, result, at_call, access>>
    /\ UNCHANGED compiler_vars

\* The conditional jumps pop the predicate whether or not they jump.
CondJump(when) ==
    IF Depth < 1 THEN VmError("StackEmpty")
    ELSE IF Top.t # "Bool" THEN VmError("Expected")
    ELSE /\ stack' = Under(1)
         /\ ip' = IF (Top.v = 1) = when THEN ip + 1 + Cur.a ELSE ip + 1
         /\ UNCHANGED <<frames, heap, status, result, at_call, access>>

\* Inst::JumpIf
VmJumpIf == At({"JumpIf"}) /\ CondJump(TRUE) /\ UNCHANGED compiler_vars

\* Inst::JumpIfNot
VmJumpIfNot == At({"JumpIfNot"}) /\ CondJump(FALSE) /\ UNCHANGED compiler_vars

\* C13 mutant: the predicate is popped when the jump is taken, too.
CondJumpOrPop_popping(when) ==
    IF Depth < 1 THEN VmError("StackEmpty")
    ELSE IF Top.t # "Bool" THEN VmError("Expected")
    ELSE /\ stack' = Under(1)
         /\ ip' = IF (Top.v = 1) = when THEN ip + 1 + Cur.a ELSE ip + 1
         /\ UNCHANGED <<frames, heap, status, result, at_call, access>>

\* The OrPop jumps pop the predicate only when they do not jump.
CondJumpOrPop(when) ==
    IF Depth < 1 THEN VmError("StackEmpty")
    ELSE IF Top.t # "Bool" THEN VmError("Expected")
    ELSE /\ stack' = IF (Top.v = 1) = when THEN stack ELSE Under(1)
         /\ ip' = IF (Top.v = 1) = when THEN ip + 1 + Cur.a ELSE ip + 1
         /\ UNCHANGED <<frames, heap, status, result, at_call, access>>

\* Inst::JumpIfOrPop
VmJumpIfOrPop == At({"JumpIfOrPop"}) /\ CondJumpOrPop(TRUE) /\ UNCHANGED compiler_vars

\* Inst::JumpIfNotOrPop
VmJumpIfNotOrPop == At({"JumpIfNotOrPop"}) /\ CondJumpOrPop(FALSE) /\ UNCHANGED compiler_vars

VmStep ==
    \/ VmPush \/ VmPop \/ VmPopN \/ VmClean \/ VmCopy \/ VmReplace
    \/ VmPtr \/ VmDeref \/ VmReplaceDeref \/ VmNot \/ VmOp
    \/ VmArray \/ VmObject \/ VmIndexGet \/ VmIndexSet
    \/ VmCall \/ VmCallInstance \/ VmReturn \/ VmReturnUnit
    \/ VmJump \/ VmJumpIf \/ VmJumpIfNot

(***************************************************************************)
(* The parsed files the compiler is given: every expression form, alone   *)
(* as the statement or as the tail of a function, and short bodies that   *)
(* combine a declaration, a statement and a tail.                          *)
(***************************************************************************)
ParamNames == <<"x", "y", "z", "w">>
ArgLists == {SubSeq(ParamNames, 1, n) : n \in 0..MaxParams} \cup {<<"x", "x">>}

X == Ident("x")
Y == Ident("y")
RefX == Ref(Ident("x"))
One == NumberLiteral(1)
True == BoolLiteral(TRUE)
XLt2 == Binary("Lt", X, NumberLiteral(2))
IncrX == Assign(X, Binary("Add", X, One))

Atoms == {UnitLiteral, True, BoolLiteral(FALSE), One, X, Y, RefX}
Operands == {One, X, RefX}
Conds == {True, BoolLiteral(FALSE), XLt2}

Blocks ==
    { Block(<<>>, <<>>),
      Block(<<>>, <<One>>),
      Block(<<>>, <<RefX>>),
      Block(<<True>>, <<>>),
      Block(<<Break>>, <<>>),
      Block(<<Let("y", One)>>, <<Y>>),
      Block(<<Let("y", One), Break>>, <<>>),
      Block(<<IncrX>>, <<>>),
      Block(<<Let("y", One),
              ExprIf(XLt2, Block(<<Let("z", One), Break>>, <<>>), <<>>, <<>>),
              IncrX>>, <<>>),
      Block(<<Let("y", One), While(True, Block(<<Let("z", One), Break>>, <<>>)), Break>>,
            <<>>),
      Block(<<Let("y", One),
              While(True, Block(<<Let("z", One), Let("w", One), Break>>, <<>>)),
              Break>>, <<>>) }

IfBlocks == { Block(<<>>, <<>>), Block(<<>>, <<One>>), Block(<<Let("y", One)>>, <<Y>>),
              Block(<<IncrX>>, <<>>) }

Exprs ==
    Atoms
    \cup {Not(True), Not(X), Neg(One), Deref(RefX), Ref(One), Ref(Ident("z"))}
    \cup {Binary(op, l, r) : op \in {"Add", "Lt"}, l \in Operands, r \in Operands}
    \cup {Binary("And", True, True), Binary("Eq", X, One), Binary("Div", One, X),
          Binary("Sub", X, One), Binary("Mul", X, X)}
    \cup {Assign(X, o) : o \in Operands}
    \cup {Assign(Ident("z"), One), Assign(One, One), Assign(Deref(RefX), One),
          Assign(Deref(Deref(RefX)), One)}
    \cup {Assign(Deref(X), One), Assign(Deref(Deref(X)), One), Assign(Not(X), One),
          Assign(Binary("Add", X, One), One), Assign(ArrayLiteral(<<X>>), One),
          Assign(CallFn("g", <<>>), One)}
    \cup {Let(n, o) : n \in {"x", "y"}, o \in Operands \cup {ArrayLiteral(<<One>>)}}
    \cup {CallFn("g", args) : args \in {<<>>, <<One>>, <<X>>, <<RefX>>, <<One, X>>}}
    \cup {CallFn("h", <<>>)}
    \cup {ArrayLiteral(items) :
            items \in {<<>>, <<One>>, <<X>>, <<RefX>>, <<X, One>>,
                       <<CallFn("g", <<X>>)>>, <<One, ArrayLiteral(<<One>>)>>,
                       <<ExprIf(True, Block(<<>>, <<One>>), <<>>, <<Block(<<>>, <<One>>)>>), RefX>>}}
    \cup {IndexGet(ArrayLiteral(<<One, X>>), i) : i \in {NumberLiteral(0), One, X}}
    \cup {IndexGet(X, One)}
    \cup {CharLiteral(97), StringLiteral("a")}
    \cup {ObjectLiteral(<<>>, <<>>),
          ObjectLiteral(<<StringLiteral("a")>>, <<One>>),
          ObjectLiteral(<<StringLiteral("a")>>, <<CallFn("g", <<X>>)>>),
          ObjectLiteral(<<StringLiteral("a"), StringLiteral("b")>>, <<X, CallFn("g", <<>>)>>),
          ObjectLiteral(<<StringLiteral("a")>>, <<Assign(X, One)>>),
          ObjectLiteral(<<StringLiteral("a")>>,
                        <<IndexSet(ArrayLiteral(<<One>>), NumberLiteral(0), X)>>),
          ArrayLiteral(<<One, CallFn("g", <<>>)>>),
          ArrayLiteral(<<Assign(X, One)>>),
          ArrayLiteral(<<ObjectLiteral(<<StringLiteral("a")>>, <<CallFn("g", <<X>>)>>)>>)}
    \cup {IndexSet(ArrayLiteral(<<One>>), NumberLiteral(0), X), IndexSet(X, One, One)}
    \cup {ExprIf(c, b, <<>>, e) : c \in Conds, b \in IfBlocks,
                                  e \in {<<>>} \cup {<<eb>> : eb \in IfBlocks}}
    \cup {ExprIf(c, Block(<<>>, <<One>>), <<c2, Block(<<>>, <<X>>)>>, e) :
            c \in Conds, c2 \in {True, XLt2, X},
            e \in {<<>>, <<Block(<<>>, <<One>>)>>}}
    \cup {ExprIf(True, Block(<<>>, <<One>>),
                 <<True, Block(<<>>, <<One>>), True, Block(<<>>, <<One>>)>>, <<>>)}
    \cup {While(c, b) : c \in Conds, b \in Blocks}
    \cup {ExprLoop(b) : b \in {Block(<<Break>>, <<>>),
                               Block(<<Let("y", One), Break>>, <<>>),
                               Block(<<Let("y", One),
                                       While(True, Block(<<Let("z", One), Break>>, <<>>)),
                                       Break>>, <<>>)}}
    \cup {Break}
    \cup {CallFn("g", <<X, One>>), CallInstanceFn(X, "m", <<>>),
          CallInstanceFn(X, "m", <<One, NumberLiteral(2)>>)}

Tails == {Y, ArrayLiteral(<<Y>>), CallFn("g", <<Y>>), Binary("Add", Y, One), Deref(Y)}

Bodies ==
    {Block(<<>>, <<>>)}
    \cup {Block(<<>>, <<e>>) : e \in Exprs}
    \cup {Block(<<e>>, <<>>) : e \in Exprs}
    \cup {Block(<<Let("y", v), s>>, t) :
            v \in {One, RefX},
            s \in {Let("y", RefX), Let("y", One), Assign(Y, RefX), Assign(Y, One),
                   ExprIf(True, Block(<<Assign(Y, RefX)>>, <<>>), <<>>, <<>>),
                   ExprIf(True, Block(<<Let("y", NumberLiteral(2))>>, <<>>), <<>>, <<>>),
                   Assign(Deref(Y), NumberLiteral(2)), UnitLiteral},
            t \in {<<>>} \cup {<<e>> : e \in Tails}}

GFns ==
    { FnDecl("g", <<>>, Block(<<>>, <<>>)),
      FnDecl("g", <<"x">>, Block(<<>>, <<>>)),
      FnDecl("g", <<"x">>, Block(<<>>, <<Binary("Add", X, One)>>)),
      FnDecl("g", <<"x">>, Block(<<Let("y", X)>>, <<>>)),
      FnDecl("g", <<"x", "y">>, Block(<<Let("z", Y)>>, <<X>>)) }

RECURSIVE Uses(_, _)
RECURSIVE UsesAny(_, _, _)
\* The expression, or one nested in it, is of kind k.
Uses(e, k) == e.k = k \/ UsesAny(e.a \o e.t, k, 1)
UsesAny(es, k, i) == i <= Len(es) /\ (Uses(es[i], k) \/ UsesAny(es, k, i + 1))

\* `let s = 0; let i = 0; while i < n { s = s + i; i = i + 1; } s` for the
\* counts n whose sum 0 + 1 + ... + (n - 1) is an Integer of the model.
LoopCounts ==
    {n \in 0..(Pow2(IntBits - 1) - 1) : n * (n - 1) <= 2 * (Pow2(IntBits - 1) - 1)}

SumBody(n) ==
    Block(<<Let("s", NumberLiteral(0)),
            Let("i", NumberLiteral(0)),
            While(Binary("Lt", Ident("i"), NumberLiteral(n)),
                  Block(<<Assign(Ident("s"), Binary("Add", Ident("s"), Ident("i"))),
                          Assign(Ident("i"), Binary("Add", Ident("i"), One))>>, <<>>))>>,
          <<Ident("s")>>)

SumFiles == {<<FnDecl("main", <<>>, SumBody(n))>> : n \in LoopCounts}

\* Files whose first function does not compile, followed by a function
\* that compiles and by one that does not.
FailingFirst ==
    {<<g, m>> :
        g \in {FnDecl("g", <<>>, Block(<<>>, <<Ident("z")>>)),
                FnDecl("g", <<"x", "x">>, Block(<<>>, <<>>))},
        m \in {FnDecl("main", <<>>, Block(<<>>, <<One>>)),
                FnDecl("main", <<>>, Block(<<>>, <<Break>>))}}

Mains == {FnDecl("main", args, body) : args \in ArgLists, body \in Bodies}

Files ==
    {<<m>> : m \in Mains}
    \cup {<<g, m>> : g \in GFns, m \in {m \in Mains : Len(m.args) = 1 /\ Uses(m.body, "CallFn")}}
    \cup {<<g, g>> : g \in GFns}
    \cup SumFiles
    \cup FailingFirst

(***************************************************************************)
(* The state machine.                                                      *)
(***************************************************************************)
Init ==
    /\ file \in Files
    /\ phase = "compiling"
    /\ next_fn = 1
    /\ unit = UnitNew
    /\ encoders = <<>>
    /\ cerr = "none"
    /\ ip = 0
    /\ stack = <<>>
    /\ frames = <<>>
    /\ heap = <<>>
    /\ status = "idle"
    /\ result = VUnit
    /\ at_call = <<>>
    /\ access = NoAccess
    /\ LibIdle

Next == CompileFn \/ HostCall \/ VmStep

Spec == Init /\ [][Next]_vars

(***************************************************************************)
(* Units assembled by hand, for the instructions the encoder above never  *)
(* emits.  Jump offsets are written as the linker leaves them: relative   *)
(* to the jump's successor.                                                *)
(***************************************************************************)
Asm(name, args, insts) == [name |-> name, args |-> args, insts |-> insts]

RECURSIVE Assembled(_, _, _)
\* The unit holding fns[i], fns[i + 1], ... after the functions of u.
Assembled(u, fns, i) ==
    IF i > Len(fns) THEN u
    ELSE Assembled([insts |-> u.insts \o fns[i].insts,
                    functions |-> [u.functions EXCEPT ![fns[i].name] =
                        [defined |-> TRUE, entry |-> Len(u.insts), args |-> fns[i].args,
                         len |-> Len(fns[i].insts)]]],
                   fns, i + 1)

UnitOf(fns) == Assembled(UnitNew, fns, 1)

\* main holds 1 below the two arguments 2 and 3 it calls g with; g runs two
\* slot instructions in a frame that starts at stack location 1.
SlotInsts ==
    {Inst(op, k) : op \in {"Copy", "Move", "Replace", "Drop"}, k \in 0..2}

SlotUnits ==
    {UnitOf(<<Asm("main", 0, <<Inst("Integer", 1), Inst("Integer", 2), Inst("Integer", 3),
                               InstCall("g", 2), Inst("Return", 0)>>),
              Asm("g", 2, <<i1, i2, Inst("ReturnUnit", 0)>>)>>) :
        i1 \in SlotInsts, i2 \in SlotInsts}

\* A conditional jump over a predicate b, forwards (skipping `1; return`)
\* and backwards (to `1; return` from behind it).
CondJumpOps == {"JumpIf", "JumpIfNot", "JumpIfOrPop", "JumpIfNotOrPop"}

JumpUnits ==
    {UnitOf(<<Asm("main", 0, <<Inst("Unit", 0), Inst("Bool", b), Inst(op, 2),
                               Inst("Integer", 1), Inst("Return", 0),
                               Inst("Integer", 2), Inst("Return", 0)>>)>>) :
        op \in CondJumpOps, b \in 0..1}
    \cup
    {UnitOf(<<Asm("main", 0, <<Inst("Jump", 2),
                               Inst("Integer", 1), Inst("Return", 0),
                               Inst("Unit", 0), Inst("Bool", b), Inst(op, -5),
                               Inst("Integer", 2), Inst("Return", 0)>>)>>) :
        op \in CondJumpOps, b \in 0..1}

\* The smallest and the largest Integer.
MinInteger == -Pow2(IntBits - 1)
MaxInteger == Pow2(IntBits - 1) - 1

\* `a op b` for the Integers at and next to the ends of the range, around
\* zero and in the middle.
EdgeIntegers ==
    {MinInteger, MinInteger + 1, -Pow2(IntBits - 2), -1, 0, 1, 2, Pow2(IntBits - 2),
     MaxInteger - 1, MaxInteger}

ArithUnits ==
    {UnitOf(<<Asm("main", 0, <<Inst("Integer", a), Inst("Integer", b), Inst(op, 0),
                               Inst("Return", 0)>>)>>) :
        a \in EdgeIntegers, b \in EdgeIntegers, op \in {"Add", "Sub", "Mul"}}

\* The body of `|| a + 1` and of `|a| n + a`: the environment is unpacked
\* behind the arguments.
AddOneInsts ==
    <<Inst("PushTuple", 0), Inst("Copy", 0), Inst("Integer", 1), Inst("Add", 0),
      Inst("Return", 0)>>

AddArgInsts ==
    <<Inst("PushTuple", 0), Inst("Copy", 1), Inst("Copy", 0), Inst("Add", 0),
      Inst("Return", 0)>>

\* Programs with closures, as spec 4.3 (Closures) lowers them (a Copy for each
\* captured variable, then Closure), with the Integer each returns.
\*   fn main() { let a = v; let f = || a + 1; a = w; f() }
CaptureThenAssign(v, w) ==
    [u |-> UnitOf(<<Asm("main", 0, <<Inst("Integer", v), Inst("Copy", 0),
                                     InstClosure("c1", 1), Inst("Integer", w),
                                     Inst("Replace", 0), Inst("Copy", 1),
                                     Inst("CallFn", 0), Inst("Return", 0)>>),
                    Asm("c1", 0, AddOneInsts)>>),
     r |-> v + 1]

\*   fn g(n) { |a| n + a }  fn main() { g(v)(w) }
CaptureFnArg(v, w) ==
    [u |-> UnitOf(<<Asm("g", 1, <<Inst("Copy", 0), InstClosure("c1", 1),
                                  Inst("Return", 0)>>),
                    Asm("c1", 1, AddArgInsts),
                    Asm("main", 0, <<Inst("Integer", w), Inst("Integer", v),
                                     InstCall("g", 1), Inst("CallFn", 1),
                                     Inst("Return", 0)>>)>>),
     r |-> v + w]

\*   fn g(f) { f() }  fn main() { let a = v; let f = || a + 1; a = w; g(f) }
ClosurePassed(v, w) ==
    [u |-> UnitOf(<<Asm("g", 1, <<Inst("Copy", 0), Inst("CallFn", 0), Inst("Return", 0)>>),
                    Asm("c1", 0, AddOneInsts),
                    Asm("main", 0, <<Inst("Integer", v), Inst("Copy", 0),
                                     InstClosure("c1", 1), Inst("Integer", w),
                                     Inst("Replace", 0), Inst("Copy", 1),
                                     InstCall("g", 1), Inst("Return", 0)>>)>>),
     r |-> v + 1]

\*   fn main() { let var = v; let a = |i| { let b = |j| var + j; b(i + 1) }; a(w) }
NestedClosures(v, w) ==
    [u |-> UnitOf(<<Asm("main", 0, <<Inst("Integer", v), Inst("Copy", 0),
                                     InstClosure("c1", 1), Inst("Integer", w),
                                     Inst("Copy", 1), Inst("CallFn", 1),
                                     Inst("Return", 0)>>),
                    Asm("c1", 1, <<Inst("PushTuple", 0), Inst("Copy", 1),
                                   InstClosure("c2", 1), Inst("Copy", 0),
                                   Inst("Integer", 1), Inst("Add", 0), Inst("Copy", 2),
                                   Inst("CallFn", 1), Inst("Return", 0)>>),
                    Asm("c2", 1, AddArgInsts)>>),
     r |-> v + w + 1]

\*   fn main() { let a = v; let b = w; let f = || a - b; f() }
TwoCaptures(v, w) ==
    [u |-> UnitOf(<<Asm("main", 0, <<Inst("Integer", v), Inst("Integer", w),
                                     Inst("Copy", 0), Inst("Copy", 1),
                                     InstClosure("c1", 2), Inst("Copy", 2),
                                     Inst("CallFn", 0), Inst("Return", 0)>>),
                    Asm("c1", 0, <<Inst("PushTuple", 0), Inst("Copy", 0), Inst("Copy", 1),
                                   Inst("Sub", 0), Inst("Return", 0)>>)>>),
     r |-> v - w]

ClosurePrograms ==
    UNION {{CaptureThenAssign(v, w), CaptureFnArg(v, w), ClosurePassed(v, w),
            NestedClosures(v, w), TwoCaptures(v, w)} : v \in 1..4, w \in 2..7}

\* `fn main(f) { 1 + f.await }`, and main awaiting f a second time.
AwaitUnits ==
    {UnitOf(<<Asm("main", 1, <<Inst("Integer", 1), Inst("Copy", 0), Inst("Await", 0),
                               Inst("Add", 0), Inst("Return", 0)>>)>>),
     UnitOf(<<Asm("main", 1, <<Inst("Copy", 0), Inst("Await", 0), Inst("Copy", 0),
                               Inst("Await", 0), Inst("Add", 0), Inst("Return", 0)>>)>>)}

AsmUnits ==
    SlotUnits \cup JumpUnits \cup ArithUnits \cup {p.u : p \in ClosurePrograms}
    \cup AwaitUnits

\* The host is handed an assembled unit and calls it.
AsmInit ==
    /\ file = <<>>
    /\ phase = "compiled"
    /\ next_fn = 1
    /\ unit \in AsmUnits
    /\ encoders = <<>>
    /\ cerr = "none"
    /\ ip = 0
    /\ stack = <<>>
    /\ frames = <<>>
    /\ heap = <<>>
    /\ status = "idle"
    /\ result = VUnit
    /\ at_call = <<>>
    /\ access = NoAccess
    /\ LibIdle

AsmNext ==
    \/ HostCall
    \/ VmPush \/ VmCopy \/ VmMove \/ VmDrop \/ VmReplace \/ VmOp
    \/ VmCall \/ VmReturn \/ VmReturnUnit
    \/ VmJump \/ VmJumpIf \/ VmJumpIfNot \/ VmJumpIfOrPop \/ VmJumpIfNotOrPop
    \/ VmClosure \/ VmCallFn \/ VmPushTuple
    \/ HostCallAsync \/ VmAwait \/ Complete \/ Resume

AsmSpec == AsmInit /\ [][AsmNext]_vars

(***************************************************************************)
(* The host's borrows of managed slots.  A conversion of a value into a   *)
(* Ref or a Mut guard requests a shared or an exclusive borrow of the     *)
(* value's slot; dropping the guard releases it.                           *)
(***************************************************************************)
\* The request of the host is granted or denied; a denied request leaves
\* the borrows and the heap as they are.
Granted(slot, held) ==
    /\ access' = [held |-> [access.held EXCEPT ![slot] = held], last |-> "Ok"]
    /\ heap' = heap

Denied ==
    /\ access' = [access EXCEPT !.last = "AccessError"]
    /\ heap' = heap

\* Shared::into_ref: a shared borrow, unless the slot is borrowed exclusively.
into_ref(slot) ==
    /\ access.held[slot].shared < MaxShared
    /\ IF access.held[slot].exclusive > 0 THEN Denied
       ELSE Granted(slot, [access.held[slot] EXCEPT !.shared = @ + 1])

\* C18 mutant: only another exclusive borrow is in the way.
into_mut_over_shared(slot) ==
    IF access.held[slot].exclusive > 0 THEN Denied
    ELSE Granted(slot, [access.held[slot] EXCEPT !.exclusive = @ + 1])

\* Shared::into_mut: an exclusive borrow, unless the slot is borrowed at all.
into_mut(slot) ==
    IF access.held[slot].exclusive > 0 \/ access.held[slot].shared > 0 THEN Denied
    ELSE Granted(slot, [access.held[slot] EXCEPT !.exclusive = @ + 1])

\* FromValue for Ref<Tuple>
BorrowShared ==
    /\ \E slot \in 1..Len(heap) : into_ref(slot)
    /\ UNCHANGED <<compiler_vars, ip, stack, frames, status, result, at_call>>

\* FromValue for Mut<Tuple>
BorrowExclusive ==
    /\ \E slot \in 1..Len(heap) : into_mut(slot)
    /\ UNCHANGED <<compiler_vars, ip, stack, frames, status, result, at_call>>

\* A Ref guard is dropped.
ReleaseShared ==
    /\ \E slot \in 1..Len(heap) :
          /\ access.held[slot].shared > 0
          /\ access' = [access EXCEPT !.held[slot].shared = @ - 1]
    /\ UNCHANGED <<compiler_vars, ip, stack, frames, heap, status, result, at_call>>

\* A Mut guard is dropped.
ReleaseExclusive ==
    /\ \E slot \in 1..Len(heap) :
          /\ access.held[slot].exclusive > 0
          /\ access' = [access EXCEPT !.held[slot].exclusive = @ - 1]
    /\ UNCHANGED <<compiler_vars, ip, stack, frames, heap, status, result, at_call>>

\* The host writes the first field of a tuple through its Mut guard.
WriteExclusive ==
    /\ \E slot \in 1..Len(heap) : \E v \in ArgValues :
          /\ access.held[slot].exclusive > 0
          /\ heap' = [heap EXCEPT ![slot][1] = v]
    /\ UNCHANGED <<compiler_vars, ip, stack, frames, status, result, at_call, access>>

\* The host holds a tuple in every slot of the heap; the machine is idle.
BorrowInit ==
    /\ file = <<>>
    /\ phase = "compiled"
    /\ next_fn = 1
    /\ unit = UnitNew
    /\ encoders = <<>>
    /\ cerr = "none"
    /\ ip = 0
    /\ stack = <<>>
    /\ frames = <<>>
    /\ heap = [slot \in Slots |-> <<VInteger(0)>>]
    /\ status = "idle"
    /\ result = VUnit
    /\ at_call = <<>>
    /\ access = NoAccess
    /\ LibIdle

BorrowNext ==
    \/ BorrowShared \/ BorrowExclusive
    \/ ReleaseShared \/ ReleaseExclusive
    \/ WriteExclusive

BorrowSpec == BorrowInit /\ [][BorrowNext]_vars

\* The summing programs alone, with the steps they take.  Once the unit is
\* compiled the host calls it and the machine runs until it halts: nothing
\* else is scheduled, so a machine step that can be taken is taken.
SumInit == Init /\ file \in SumFiles

SumRun ==
    \/ HostCall
    \/ VmPush \/ VmCopy \/ VmOp \/ VmReplace \/ VmClean
    \/ VmJump \/ VmJumpIfNot \/ VmReturn

SumNext == CompileFn \/ SumRun

SumSpec == SumInit /\ [][SumNext]_vars /\ WF_vars(SumRun)

\* Nothing is compiled and the machine is at rest.
NothingCompiled ==
    /\ file = <<>>
    /\ next_fn = 1
    /\ unit = UnitNew
    /\ encoders = <<>>
    /\ cerr = "none"
    /\ ip = 0
    /\ stack = <<>>
    /\ frames = <<>>
    /\ heap = <<>>
    /\ status = "idle"
    /\ result = VUnit
    /\ at_call = <<>>
    /\ access = NoAccess

AtRest == NothingCompiled /\ phase = "idle"

machine_vars == <<file, phase, next_fn, unit, encoders, cerr, vm_vars>>

(***************************************************************************)
(* The scope stack under its four operations, called in any order.  A     *)
(* guard is not Copy or Clone: pop takes it by value, so each guard is     *)
(* given to pop at most once.                                              *)
(***************************************************************************)
ScopesInit == AtRest /\ LibIdle

RECURSIVE Scope_with_anon(_, _)
\* A scope with n anonymous variables declared in it.
Scope_with_anon(scope, n) ==
    IF n = 0 THEN scope ELSE Scope_with_anon(Scope_decl_anon(scope, 1).scope, n - 1)

\* What the operation `op` with guard `guard` did, after the operation
\* before it.
Logged(op, guard, res) ==
    (IF scopes.log = <<>> THEN <<>> ELSE <<scopes.log[Len(scopes.log)]>>)
    \o <<[op |-> op, guard |-> guard, ok |-> res.ok,
          returned |-> res.returned, err |-> res.err]>>

\* The bookkeeping after a scope was removed, or not.
ScopesRemoved(res) ==
    IF res.ok THEN SubSeq(scopes.pushed, 1, Len(scopes.pushed) - 1) ELSE scopes.pushed

ScopesPushed(scope) ==
    /\ scopes' = [scopes EXCEPT
           !.scopes = Scopes_push(scopes.scopes, scope).scopes,
           !.pushed = Append(scopes.pushed, scopes.next),
           !.next = scopes.next + 1,
           !.held = scopes.held \cup
                      {[count |-> Scopes_push(scopes.scopes, scope).returned,
                        scope |-> scopes.next]},
           !.log = Logged("push", Scopes_push(scopes.scopes, scope).returned,
                          Scopes_push(scopes.scopes, scope))]
    /\ UNCHANGED <<machine_vars, host, source>>

\* `scopes.push(scopes.last()?.child())`, after which variables are declared
\* in the new scope; or a new scope when the root was popped.
ScopesPush ==
    /\ scopes.next <= MaxPushes
    /\ Len(scopes.scopes) < MaxScopes
    /\ \E n \in {0, 1} :
         ScopesPushed(Scope_with_anon(
             IF scopes.scopes = <<>> THEN Scope_new
             ELSE Scope_child(scopes.scopes[Len(scopes.scopes)]), n))

ScopesPopped(op, guard, res, unchecked) ==
    /\ scopes' = [scopes EXCEPT
           !.scopes = res.scopes,
           !.pushed = ScopesRemoved(res),
           !.held = scopes.held \ {guard},
           !.unchecked = scopes.unchecked \/ unchecked,
           !.log = Logged(op, guard.count, res)]
    /\ UNCHANGED <<machine_vars, host, source>>

\* `scopes.pop(span, guard)` with a guard that push returned.
ScopesPop(guard) ==
    /\ guard \in scopes.held
    /\ ScopesPopped("pop", guard, Scopes_pop(scopes.scopes, guard.count), FALSE)

\* `scopes.pop_last(span)`
ScopesPopLast ==
    /\ ScopesPopped("pop_last", [count |-> 1, scope |-> 0],
                    Scopes_pop_last(scopes.scopes), TRUE)

\* `scopes.pop_unchecked(span)`
ScopesPopUnchecked ==
    /\ ScopesPopped("pop_unchecked", [count |-> 0, scope |-> 0],
                    Scopes_pop_unchecked(scopes.scopes), TRUE)

ScopesPopHeld == \E guard \in scopes.held : ScopesPop(guard)

ScopesNext == ScopesPush \/ ScopesPopHeld \/ ScopesPopLast \/ ScopesPopUnchecked

ScopesSpec == ScopesInit /\ [][ScopesNext]_vars

(***************************************************************************)
(* The scope stack under declarations and lookups: a child of the top     *)
(* scope is pushed, the top scope is popped with the guard of its push    *)
(* (the root with pop_last), variables are declared in the top scope and  *)
(* names are looked up.  `log` holds the last operation with the stack it *)
(* was called on.                                                          *)
(***************************************************************************)
VarsInit == AtRest /\ LibIdle

\* The last operation: what it was called with and on, and what it returned.
VarsLogged(op, name, span, ok, err, offset, other_span) ==
    <<[op |-> op, name |-> name, span |-> span, before |-> scopes.scopes,
       ok |-> ok, err |-> err, offset |-> offset, other_span |-> other_span]>>

VarsStep(live, entry) ==
    /\ scopes' = [scopes EXCEPT !.scopes = live, !.log = entry]
    /\ UNCHANGED <<machine_vars, host, source>>

\* `self.scopes.last_mut(span)?` followed by a declaration in that scope.
VarsDeclaredIn(op, name, span, d) ==
    VarsStep([scopes.scopes EXCEPT ![Len(scopes.scopes)] = d.scope],
             VarsLogged(op, name, span, d.ok, d.err, d.offset, d.existing_span))

VarsRoom ==
    /\ scopes.scopes # <<>>
    /\ scopes.scopes[Len(scopes.scopes)].total_var_count < MaxVars

\* `let guard = scopes.push(scopes.last(span)?.child())`
VarsPush ==
    /\ scopes.scopes # <<>>
    /\ Len(scopes.scopes) < MaxScopes
    /\ VarsStep(Scopes_push(scopes.scopes,
                            Scope_child(scopes.scopes[Len(scopes.scopes)])).scopes,
                VarsLogged("push", "", 0, TRUE, "none", 0, 0))

\* `scopes.pop(span, guard)` with the guard of the top scope's push
VarsPop ==
    /\ Len(scopes.scopes) > 1
    /\ VarsStep(Scopes_pop(scopes.scopes, Len(scopes.scopes)).scopes,
                VarsLogged("pop", "", 0, Scopes_pop(scopes.scopes, Len(scopes.scopes)).ok,
                           Scopes_pop(scopes.scopes, Len(scopes.scopes)).err, 0, 0))

\* `scopes.pop_last(span)` at the end of a function
VarsPopLast ==
    /\ Len(scopes.scopes) = 1
    /\ VarsStep(Scopes_pop_last(scopes.scopes).scopes,
                VarsLogged("pop_last", "", 0, Scopes_pop_last(scopes.scopes).ok,
                           Scopes_pop_last(scopes.scopes).err, 0, 0))

\* `scopes.last_mut(span)?.new_var(name, span)?`
VarsNewVar ==
    /\ VarsRoom
    /\ \E name \in VarNames, span \in Spans :
         VarsDeclaredIn("new_var", name, span,
                        Scope_new_var(scopes.scopes[Len(scopes.scopes)], name, span))

\* `scopes.last_mut(span)?.decl_var(name, span)`
VarsDeclVar ==
    /\ VarsRoom
    /\ \E name \in VarNames, span \in Spans :
         VarsDeclaredIn("decl_var", name, span,
                        Scope_decl_var(scopes.scopes[Len(scopes.scopes)], name, span))

\* `scopes.last_mut(span)?.decl_anon(span)`
VarsDeclAnon ==
    /\ VarsRoom
    /\ \E span \in Spans :
         VarsDeclaredIn("decl_anon", "", span,
                        Scope_decl_anon(scopes.scopes[Len(scopes.scopes)], span))

\* What the last lookup returned.
VarsFound(name, span, res) ==
    <<[op |-> "get_var", name |-> name, span |-> span, before |-> scopes.scopes,
       ok |-> res.ok, err |-> res.err, var |-> res.var,
       err_name |-> res.name, err_span |-> res.span]>>

\* `scopes.get_var(name, span)`
VarsGetVar ==
    \E name \in VarNames, span \in Spans :
        VarsStep(scopes.scopes,
                 VarsFound(name, span, Scopes_get_var(scopes.scopes, name, span)))

VarsNext ==
    VarsPush \/ VarsPop \/ VarsPopLast \/ VarsNewVar \/ VarsDeclVar \/ VarsDeclAnon
    \/ VarsGetVar

VarsSpec == VarsInit /\ [][VarsNext]_vars

(***************************************************************************)
(* The host converting runtime values to tuples and back.                  *)
(***************************************************************************)
\* The sequences of 'from' to 'to' elements of a set.
SeqsOf(set, from, to) == UNION {[1..n -> set] : n \in from..to}

ElemValues ==
    {VUnit, VBool(TRUE), VInteger(1), VInteger(2),
     ValueTuple(<<>>), ValueTuple(<<VInteger(1)>>)}
RuntimeValues ==
    {VUnit, VInteger(1)} \cup {ValueTuple(items) : items \in SeqsOf(ElemValues, 0, MaxArity)}
TupleTypes == SeqsOf(HostTypes, 1, MaxArity)
HostElems ==
    {HostInteger(1), HostInteger(2), HostBool(TRUE), HostTuple(<<>>),
     HostTuple(<<VInteger(1)>>)}
HostTuples == SeqsOf(HostElems, 1, MaxArity)

TypesOf(hs) == [i \in 1..Len(hs) |-> hs[i].ty]

Conversion(op, value, types, tuple, out) ==
    [op |-> op, value |-> value, types |-> types, tuple |-> tuple, out |-> out]

TupleInit == AtRest /\ LibIdle

\* `<(A, B, ..)>::from_value(value)`
HostFromValue ==
    /\ host = NoConversion
    /\ \E value \in RuntimeValues, types \in TupleTypes :
         host' = Conversion("from_value", value, types, <<>>, from_value(value, types))
    /\ UNCHANGED <<machine_vars, scopes, source>>

\* `(a, b, ..).to_value()`
HostToValue ==
    /\ host = NoConversion
    /\ \E tuple \in HostTuples :
         host' = Conversion("to_value", VUnit, TypesOf(tuple), tuple, to_value(tuple))
    /\ UNCHANGED <<machine_vars, scopes, source>>

\* The value just made is converted back to the type it was made from.
HostRoundTrip ==
    /\ host.op = "to_value"
    /\ host' = Conversion("round_trip", host.out.value, host.types, host.tuple,
                          from_value(host.out.value, host.types))
    /\ UNCHANGED <<machine_vars, scopes, source>>

TupleNext == HostFromValue \/ HostToValue \/ HostRoundTrip

TupleSpec == TupleInit /\ [][TupleNext]_vars

(***************************************************************************)
(* From source to result: a function whose body is a chain of binary       *)
(* operations on number literals is parsed, compiled and run.              *)
(***************************************************************************)
ChainNumbers == {1, 2, 3}
ChainOps == {"Add", "Sub", "Mul", "Div", "Lt", "Eq"}

\* `a op b op c`, and `1 op 2 op 3 op 2`
Sources ==
    {<<Number(a), Op(o1), Number(b), Op(o2), Number(c)>> :
        a \in ChainNumbers, b \in ChainNumbers, c \in ChainNumbers,
        o1 \in ChainOps, o2 \in ChainOps}
    \cup {<<Number(1), Op(o1), Number(2), Op(o2), Number(3), Op(o3), Number(2)>> :
            o1 \in ChainOps, o2 \in ChainOps, o3 \in ChainOps}

ParseInit ==
    /\ NothingCompiled
    /\ phase = "parsing"
    /\ scopes = ScopesIdle
    /\ host = NoConversion
    /\ source \in Sources

\* `fn main() { <source> }` is parsed: the file has the one function, or
\* the compilation fails with the parser's error.
ParseFile ==
    /\ phase = "parsing"
    /\ IF parse_expr(source).err = "none"
       THEN /\ file' = <<FnDecl("main", <<>>, Block(<<>>, <<parse_expr(source).expr>>))>>
            /\ phase' = "compiling"
            /\ cerr' = cerr
       ELSE /\ file' = file
            /\ phase' = "failed"
            /\ cerr' = parse_expr(source).err
    /\ UNCHANGED <<next_fn, unit, encoders, vm_vars, lib_vars>>

ParseNext == ParseFile \/ CompileFn \/ HostCall \/ VmPush \/ VmOp \/ VmReturn

ParseSpec == ParseInit /\ [][ParseNext]_vars

(***************************************************************************)
(* Properties.  The entry function is the last function of the file; its  *)
(* encoder is the last one kept, and the host runs it in the root frame.  *)
(***************************************************************************)
MainEnc == encoders[Len(file)]
MainEntry == unit.functions["main"].entry
InRootFrame == status = "running" /\ Len(frames) = 1 /\ Len(encoders) = Len(file)

\* The expression forms of the encoder's dispatch that lower one expression
\* of the old syntax tree (everything encode_expr handles but `loop` and
\* `break`).
LoweredForms ==
    {"UnitLiteral", "BoolLiteral", "NumberLiteral", "ArrayLiteral", "Ident",
     "ExprUnary", "ExprBinary", "CallFn", "IndexGet", "IndexSet", "Let",
     "ExprIf", "While"}

\* The machine stands right after the instructions of the only expression
\* of the entry function's body, lowered as the tail (extra = 1) or as a
\* statement (extra = 0).  The function was entered with exactly its
\* parameters on the stack.
AfterOnlyExpr(extra) ==
    /\ InRootFrame
    /\ Len(MainEnc.marks) = 1
    /\ MainEnc.marks[1].extra = extra
    /\ MainEnc.marks[1].form \in LoweredForms
    /\ ip - MainEntry = MainEnc.marks[1].at

\* C1: an expression lowered with Needs=Value, once executed, leaves the
\* stack exactly one entry deeper than the live local slots: here, after the
\* tail expression of a function the stack holds the locals and one value.
C1_NeedsValuePushesOne ==
    AfterOnlyExpr(1) => Depth = MainEnc.marks[1].vars + 1

\* C2: an expression lowered with Needs=None, once executed, leaves nothing
\* above the live local slots: here, after the only statement of a function
\* the stack holds exactly the locals.
C2_NeedsNoneLeavesDepth ==
    AfterOnlyExpr(0) => Depth = MainEnc.marks[1].vars

\* Function i of the file was encoded, linked and added to the unit.
Added(i) == i < next_fn
FnOf(i) == unit.functions[file[i].name]
\* The linked instruction stream of function i.
Code(i) == SubSeq(unit.insts, FnOf(i).entry + 1, FnOf(i).entry + FnOf(i).len)
Returns(code) == {p \in 1..Len(code) : code[p].op \in {"Return", "ReturnUnit"}}
Jumps(code) == {p \in 1..Len(code) : code[p].op \in JumpOps}
\* The index (from 0) a jump at position p (from 1) leads to: its resolved
\* offset added to the index of its successor.
Target(code, p) == p + code[p].a

\* C3: in every compiled function the only Return or ReturnUnit is the last
\* instruction (Return when the body has a trailing expression, ReturnUnit
\* otherwise), and every instruction before it leads to an instruction of
\* the function, so no path from the entry leaves the function but through
\* that one instruction.
C3_OneReturnAtEnd ==
    \A i \in 1..Len(file) : Added(i) =>
        /\ Returns(Code(i)) = {Len(Code(i))}
        /\ Code(i)[Len(Code(i))].op =
               (IF file[i].body.t # <<>> THEN "Return" ELSE "ReturnUnit")
        /\ \A p \in Jumps(Code(i)) :
               Target(Code(i), p) >= 0 /\ Target(Code(i), p) < Len(Code(i))

\* C3 witness: a compiled function with branches whose body has a tail.
C3_Witness ==
    \E i \in 1..Len(file) :
        /\ Added(i)
        /\ Cardinality(Jumps(Code(i))) >= 2
        /\ Code(i)[Len(Code(i))].op = "Return"

\* What the encoder emitted for the break logged as b, before its jump.
BeforeJump(enc, b) == SubSeq(enc.insts, b.from + 1, b.at)
\* The variables a break stands above the innermost loop's record.
Removed(b) == b.var_count - b.loops[Len(b.loops)].var_count

\* C4: for every break the encoder lowered, the instructions before the
\* jump remove exactly (variable count at the break) - (variable count in
\* the innermost loop's record): nothing, Pop or PopN; and the jump that
\* follows targets that loop's end label.
C4_BreakPopsToLoopEntry ==
    \A i \in 1..Len(encoders) : \A k \in 1..Len(encoders[i].breaks) :
        LET enc == encoders[i]
            b == enc.breaks[k]
        IN  /\ Len(b.loops) > 0
            /\ BeforeJump(enc, b) =
                   (IF Removed(b) = 0 THEN <<>>
                    ELSE IF Removed(b) = 1 THEN <<Inst("Pop", 0)>>
                    ELSE <<Inst("PopN", Removed(b))>>)
            /\ enc.insts[b.at + 1] = Inst("Jump", b.loops[Len(b.loops)].end_label)

\* C4 witness: a compiled function with a break in an inner loop that
\* removes two variables and a break in the outer loop that removes one.
C4_Witness ==
    \E i \in 1..Len(encoders) :
        /\ Added(i)
        /\ \E k \in 1..Len(encoders[i].breaks) :
              Len(encoders[i].breaks[k].loops) = 2 /\ Removed(encoders[i].breaks[k]) = 2
        /\ \E k \in 1..Len(encoders[i].breaks) :
              Len(encoders[i].breaks[k].loops) = 1 /\ Removed(encoders[i].breaks[k]) = 1

\* C5: in every function that compiled and linked, the resolved offset of
\* each jump, added to the index of the jump's successor, is an index
\* between 0 and the length of the function's instruction stream.
C5_JumpsLandInside ==
    \A i \in 1..Len(file) : Added(i) =>
        \A p \in Jumps(Code(i)) :
            Target(Code(i), p) \in 0..Len(Code(i))

\* C5 witness: a linked function with a backward jump (a loop) and a
\* forward jump.
C5_Witness ==
    \E i \in 1..Len(file) :
        /\ Added(i)
        /\ \E p \in Jumps(Code(i)) : Code(i)[p].a < 0
        /\ \E p \in Jumps(Code(i)) : Code(i)[p].a > 0

\* The value is a pointer to a stack slot at or above base, or an array
\* that holds one.
RECURSIVE PointsAbove(_, _, _)
PointsAbove(v, base, fuel) ==
    \/ v.t = "Ptr" /\ v.v >= base
    \/ /\ v.t = "Array"
       /\ fuel > 0
       /\ \E j \in 1..Len(heap[v.v]) : PointsAbove(heap[v.v][j], base, fuel - 1)

\* C6: no function that compiled returns a value holding a reference to
\* one of its own slots: when a Return executes, the value on top of the
\* stack does not point into the frame that is being left.
C6_NoLocalReferenceReturned ==
    (At({"Return"}) /\ Depth >= 1) => ~PointsAbove(Top, Base, Len(heap))

\* C8: a function with an empty body compiles to the single instruction
\* ReturnUnit, whatever the number of its parameters.
C8_EmptyBodyReturnUnit ==
    \A i \in 1..Len(encoders) :
        (file[i].body.a = <<>> /\ file[i].body.t = <<>> /\ Ok(encoders[i]))
            => encoders[i].insts = <<Inst("ReturnUnit", 0)>>

\* C8 witness: an empty function with two parameters was encoded.
C8_Witness ==
    \E i \in 1..Len(encoders) :
        /\ file[i].body.a = <<>> /\ file[i].body.t = <<>>
        /\ Len(file[i].args) >= 2
        /\ Ok(encoders[i])

\* C9 as stated: after the prologue the i-th declared parameter (from 0)
\* is bound to slot i, and the variable count is the number of parameters.
C9_ParamsInDeclarationOrder ==
    \A i \in 1..Len(encoders) : Ok(encoders[i]) =>
        /\ encoders[i].prologue.var_count = Len(file[i].args)
        /\ \A j \in 1..Len(file[i].args) :
               /\ encoders[i].prologue.locals[file[i].args[j]].bound
               /\ encoders[i].prologue.locals[file[i].args[j]].offset = j - 1

\* C9 amended: the parameters are declared last to first, so with n
\* parameters the i-th declared parameter (from 0) is bound to slot n-1-i;
\* the slots are 0 to n-1 and the variable count is n.
C9_ParamsInReverseOrder ==
    \A i \in 1..Len(encoders) : Ok(encoders[i]) =>
        /\ encoders[i].prologue.var_count = Len(file[i].args)
        /\ \A j \in 1..Len(file[i].args) :
               /\ encoders[i].prologue.locals[file[i].args[j]].bound
               /\ encoders[i].prologue.locals[file[i].args[j]].offset
                      = Len(file[i].args) - j

\* C9 witness: a function with two parameters was encoded.
C9_Witness ==
    \E i \in 1..Len(encoders) : Ok(encoders[i]) /\ Len(file[i].args) >= 2

Declared(h) == {i \in 1..Len(file) : file[i].name = h}
DeclOf(h) == file[CHOOSE i \in Declared(h) : TRUE]

\* C11: a Call whose `args` differs from the number of parameters its
\* callee was declared with ends in the bad-argument-count error at the
\* Call: no frame is pushed, ip stays on the Call (where its span is
\* found) and the stack is as it was, so nothing of the callee executes.
C11_BadArgumentCount ==
    [][(At({"Call"}) /\ Cur.h \in FnNames /\ unit.functions[Cur.h].defined
          /\ Len(DeclOf(Cur.h).args) # Cur.a)
       => /\ status' = "error"
          /\ result'.t = "BadArgumentCount"
          /\ frames' = frames
          /\ ip' = ip
          /\ stack' = stack]_vars

\* C11 witness: the machine stopped on a Call with one argument too few.
C11_Witness ==
    /\ status = "error"
    /\ result.t = "BadArgumentCount"
    /\ Cur.op = "Call"
    /\ Len(DeclOf(Cur.h).args) = Cur.a + 1
    /\ Len(frames) = 1

\* The count n of the summing program in the file, and 0 + 1 + ... + (n-1).
CountOf(f) == f[1].body.a[3].a[1].a[2].v
SumBelow(n) == (n * (n - 1)) \div 2

\* C15: the summing loop compiles, and once compiled and called it
\* terminates and returns 0 + 1 + ... + (n-1); after the tail expression,
\* before the locals are cleaned for the Return, the stack holds the two
\* locals s and i, updated by the loop body, and the result only.
C15_WhileSum ==
    /\ [](file \in SumFiles => phase # "failed")
    /\ (file \in SumFiles /\ phase = "compiled") ~>
           (/\ file \in SumFiles
            /\ status = "halted"
            /\ result = VInteger(SumBelow(CountOf(file))))
    /\ []((file \in SumFiles /\ InRootFrame /\ ip = MainEnc.marks[4].at) =>
             stack = <<VInteger(SumBelow(CountOf(file))), VInteger(CountOf(file)),
                       VInteger(SumBelow(CountOf(file)))>>)

\* C15 witness: the program with n = 10 has halted with 45.
C15_Witness ==
    /\ file \in SumFiles
    /\ CountOf(file) = 10
    /\ status = "halted"
    /\ result = VInteger(45)

\* C19 as stated: when the compilation of a file has failed, every function
\* of the file was still compiled (so that all their errors are surfaced).
C19_AllFunctionsCompiled ==
    phase = "failed" => Len(encoders) = Len(file)

\* The only expression of a function body.
OnlyExpr(f) ==
    IF f.body.t # <<>> THEN f.body.t[1] ELSE f.body.a[1]

\* The expression is a use of a name as a value, as the operand of `&` or
\* as the target of an assignment of a literal.
UseOf(e, name) ==
    \/ e = Ident(name)
    \/ e = Ref(Ident(name))
    \/ e = Assign(Ident(name), One)

\* C20: a function whose only expression uses a name that is neither a
\* parameter nor an import does not compile: it fails with MissingLocal,
\* whether the expression is the tail (Needs=Value) or a statement
\* (Needs=None), and whether the name is read, referenced or assigned.
C20_MissingLocal ==
    \A k \in 1..Len(encoders) : \A name \in Names :
        (/\ Len(file[k].body.a) + Len(file[k].body.t) = 1
         /\ UseOf(OnlyExpr(file[k]), name)
         /\ \A j \in 1..Len(file[k].args) : file[k].args[j] # name)
        => encoders[k].err = "MissingLocal"

\* The instruction under ip addresses a slot of the stack that exists once
\* the instruction has popped `popped` values.
SlotInFrame(ops, popped) ==
    /\ At(ops)
    /\ Depth >= popped
    /\ Base + Cur.a < Depth - popped

\* The machine goes on to the next instruction and nothing but the stack
\* has changed.
OnlyStackChanged ==
    /\ ip' = ip + 1
    /\ UNCHANGED <<frames, heap, status, result, at_call, access, compiler_vars>>

AtCondJump(ops, b) ==
    /\ At(ops)
    /\ Depth >= 1
    /\ Top = VBool(b)

\* The jump is taken, or not, and the predicate is popped, or not; nothing
\* else changes.
Jumped(taken, popped) ==
    /\ ip' = IF taken THEN ip + 1 + Cur.a ELSE ip + 1
    /\ stack' = IF popped THEN Under(1) ELSE stack
    /\ UNCHANGED <<frames, heap, status, result, at_call, access, compiler_vars>>

\* C13: JumpIf and JumpIfNot pop the boolean on top whether or not they
\* jump; JumpIfOrPop and JumpIfNotOrPop pop it only when they do not jump;
\* the next ip is the successor plus the signed offset when the jump is
\* taken and the successor otherwise.
C13_CondJumps ==
    [][\A b \in BOOLEAN :
        /\ (VmJumpIf /\ AtCondJump({"JumpIf"}, b)) => Jumped(b, TRUE)
        /\ (VmJumpIfNot /\ AtCondJump({"JumpIfNot"}, b)) => Jumped(~b, TRUE)
        /\ (VmJumpIfOrPop /\ AtCondJump({"JumpIfOrPop"}, b)) => Jumped(b, ~b)
        /\ (VmJumpIfNotOrPop /\ AtCondJump({"JumpIfNotOrPop"}, b)) => Jumped(~b, b)]_vars

\* C13 witness: a JumpIfNotOrPop with a negative offset was taken: the
\* machine is on the jump's target, behind it, and false is still on top.
C13_Witness ==
    /\ status = "running"
    /\ ip = 1
    /\ Len(unit.insts) >= 6
    /\ unit.insts[6] = Inst("JumpIfNotOrPop", -5)
    /\ stack = <<VUnit, VBool(FALSE)>>

\* The mathematical result of an integer operation.
Exact(op, a, b) ==
    CASE op = "Add" -> a + b
      [] op = "Sub" -> a - b
      [] op = "Mul" -> a * b

\* C16: add, subtract and multiply on two Integers never raise an error:
\* the machine goes on with an Integer in range that differs from the
\* mathematical result by a multiple of 2^IntBits (the result itself when
\* it is in range, its two's-complement wrap when it is not).
C16_OverflowWraps ==
    [][(/\ VmOp
        /\ At({"Add", "Sub", "Mul"})
        /\ Depth >= 2
        /\ Top.t = "Integer"
        /\ stack[Depth - 1].t = "Integer")
       => /\ status' = "running"
          /\ ip' = ip + 1
          /\ Len(stack') = Depth - 1
          /\ stack'[Depth - 1].t = "Integer"
          /\ stack'[Depth - 1].v \in MinInteger..MaxInteger
          /\ (stack'[Depth - 1].v - Exact(Cur.op, stack[Depth - 1].v, Top.v))
                 % Pow2(IntBits) = 0
          /\ UNCHANGED <<frames, heap, result>>]_vars

\* C16 witness: MaxInteger * MaxInteger, far out of range, was computed
\* and the run halted with its wrap, 1.
C16_Witness ==
    /\ status = "halted"
    /\ unit.insts = <<Inst("Integer", MaxInteger), Inst("Integer", MaxInteger),
                      Inst("Mul", 0), Inst("Return", 0)>>
    /\ result = VInteger(1)

\* The closure programs whose unit the machine runs.
Running == {p \in ClosurePrograms : p.u = unit}

\* C14: a closure computes with the values its captured variables had when
\* it was created: every closure program runs without error to the Integer
\* computed from the captured values, whether the variable is assigned
\* before the call, the closure is called from a nested closure, from a
\* function it was passed to or after the function that created it has
\* returned, and whether the captured variable is a `let` or a parameter;
\* and a closure, once created, is never changed.
C14_CaptureByCopy ==
    /\ [](\A p \in Running :
             /\ status # "error"
             /\ status = "halted" => result = VInteger(p.r))
    /\ [][\A slot \in 1..Len(heap) :
             heap[slot][1].t \in FnNames =>
                /\ Len(heap') >= slot
                /\ heap'[slot] = heap[slot]
                /\ \A k \in 2..Len(heap[slot]) : heap[slot][k].t = "Integer"]_vars

\* C14 witness: test_nested_closures has run.  The outer closure captured
\* var = 1 in main, the inner one captured it again inside the outer one,
\* and the call a(2) gave 1 + (2 + 1).
C14_Witness ==
    /\ unit = NestedClosures(1, 2).u
    /\ status = "halted"
    /\ result = VInteger(4)
    /\ heap = <<(<<[t |-> "c1", v |-> 1], VInteger(1)>>),
                (<<[t |-> "c2", v |-> 1], VInteger(1)>>)>>

\* The Await under ip finds a future on top that has, or has not, produced
\* its value.
AtAwait(complete) ==
    /\ At({"Await"})
    /\ Depth >= 1
    /\ Top.t = "Future"
    /\ (heap[Top.v][1].t # "Pending") = complete

\* C17: an Await that finds a complete future on top replaces it by the
\* future's result in the same run, without suspending; one that finds a
\* future that is not complete returns pending to the driver, and until the
\* Await that completes after a resumption nothing changes ip, frames or
\* the stack, so that the run continues behind the Await with the future's
\* value on top of the entries that were below it.
C17_Await ==
    [][/\ (VmAwait /\ AtAwait(TRUE)) =>
            /\ status' = "running"
            /\ ip' = ip + 1
            /\ stack' = Append(Under(1), heap[Top.v][2])
            /\ frames' = frames
       /\ (VmAwait /\ AtAwait(FALSE)) =>
            /\ status' = "pending"
            /\ UNCHANGED <<ip, stack, frames>>
       /\ status = "pending" => UNCHANGED <<ip, stack, frames>>]_vars

\* The request for a borrow of the slot would put an exclusive borrow
\* together with another borrow.
Conflicting(slot) ==
    \/ into_ref(slot) /\ access.held[slot].exclusive > 0
    \/ into_mut(slot) /\ access.held[slot].exclusive + access.held[slot].shared > 0

\* C18: the borrows outstanding on a slot are none, any number of shared
\* borrows, or exactly one exclusive borrow; and a request that would put
\* an exclusive borrow together with any other borrow fails with
\* AccessError and leaves the outstanding borrows and the payloads as they
\* are.
C18_Borrows ==
    /\ [](\A slot \in Slots :
             \/ access.held[slot].exclusive = 0
             \/ access.held[slot].exclusive = 1 /\ access.held[slot].shared = 0)
    /\ [][\A slot \in 1..Len(heap) :
             Conflicting(slot) =>
                /\ access'.last = "AccessError"
                /\ access'.held = access.held
                /\ heap' = heap]_vars

\* C18 witness: with two shared borrows on slot 1 and an exclusive borrow
\* on slot 2, through which 1 was written, a request was denied.
C18_Witness ==
    /\ access.held[1] = [shared |-> 2, exclusive |-> 0]
    /\ access.held[2] = [shared |-> 0, exclusive |-> 1]
    /\ heap[2] = <<VInteger(1)>>
    /\ access.last = "AccessError"

\* The function has one expression, an assignment of the literal 1, and
\* its parameters have different names.
AssignsOne(f) ==
    /\ Len(f.body.a) + Len(f.body.t) = 1
    /\ OnlyExpr(f).k = "ExprBinary"
    /\ OnlyExpr(f).n = "Assign"
    /\ OnlyExpr(f).a[2] = One
    /\ \A i, j \in 1..Len(f.args) : f.args[i] = f.args[j] => i = j

\* The left-hand side of the function's assignment.
Lhs(f) == OnlyExpr(f).a[1]

\* The function was rejected with UnsupportedAssignExpr and no unit is
\* produced: the compilation has failed with that error.
AssignRejected(k) ==
    /\ encoders[k].err = "UnsupportedAssignExpr"
    /\ phase = "failed"
    /\ cerr = "UnsupportedAssignExpr"
    /\ ~unit.functions[file[k].name].defined

\* The assignment to a parameter is the value followed by Replace with the
\* parameter's slot.
AssignReplaces(k) ==
    /\ Ok(encoders[k])
    /\ SubSeq(encoders[k].insts, 1, 2) =
          <<Inst("Integer", 1),
            Inst("Replace", encoders[k].prologue.locals[Lhs(file[k]).n].offset)>>

RECURSIVE Derefs(_)
\* The number of `*` around an identifier, or -1 for any other expression.
Derefs(e) ==
    IF e.k = "Ident" THEN 0
    ELSE IF e.k = "ExprUnary" /\ e.n = "Deref"
    THEN (IF Derefs(e.a[1]) = -1 THEN -1 ELSE Derefs(e.a[1]) + 1)
    ELSE -1

RECURSIVE TargetName(_)
\* The identifier under the `*`s.
TargetName(e) == IF e.k = "Ident" THEN e.n ELSE TargetName(e.a[1])

\* The assignment through n >= 1 dereferences of a parameter is the value,
\* a copy of the parameter, n - 1 Deref and ReplaceDeref.
AssignReplacesDeref(k, n) ==
    /\ Ok(encoders[k])
    /\ SubSeq(encoders[k].insts, 1, n + 2) =
          <<Inst("Integer", 1),
            Inst("Copy", encoders[k].prologue.locals[TargetName(Lhs(file[k]))].offset)>>
          \o [i \in 1..(n - 1) |-> Inst("Deref", 0)]
          \o <<Inst("ReplaceDeref", 0)>>

----------------------------------------------------------------------------
(* Side effects and literals under Needs=None.                              *)

RECURSIVE SideEffect(_, _)
RECURSIVE SideEffectAny(_, _, _)
\* The expression, or one nested in it, is a call ("Call"), an index-set
\* ("IndexSet") or an assignment ("Replace").
SideEffect(e, what) ==
    \/ what = "Call" /\ e.k = "CallFn"
    \/ what = "IndexSet" /\ e.k = "IndexSet"
    \/ what = "Replace" /\ e.k = "ExprBinary" /\ e.n = "Assign"
    \/ SideEffectAny(e.a \o e.t, what, 1)
SideEffectAny(es, what, i) ==
    i <= Len(es) /\ (SideEffect(es[i], what) \/ SideEffectAny(es, what, i + 1))

\* The instructions of a side effect.
Lowers(insts, what) ==
    \E i \in 1..Len(insts) :
        \/ insts[i].op = what
        \/ what = "Replace" /\ insts[i].op = "ReplaceDeref"

\* The function is a single statement, lowered with Needs=None.
OneStatement(f) == f.body.t = <<>> /\ Len(f.body.a) = 1

\* C22: a function that compiles and whose body is one statement holding a
\* call, an index-set or an assignment has the instruction of that side
\* effect in its code, wherever in the statement the side effect is: also
\* as the element of an array literal or the value of an object literal
\* whose own value is discarded.
C22_SideEffectsKept ==
    \A k \in 1..Len(encoders) : \A what \in {"Call", "IndexSet", "Replace"} :
        (/\ Ok(encoders[k])
         /\ OneStatement(file[k])
         /\ SideEffect(file[k].body.a[1], what))
        => Lowers(encoders[k].insts, what)

\* The statement `#{"a": g(x)};` compiles to a function without a call.
C22_ObjectDropsCall ==
    /\ phase = "compiled"
    /\ Len(file) = 2
    /\ file[2] = FnDecl("main", <<"x">>,
                   Block(<<ObjectLiteral(<<StringLiteral("a")>>, <<CallFn("g", <<X>>)>>)>>, <<>>))
    /\ ~Lowers(encoders[2].insts, "Call")

\* The constant literals.
Literals ==
    {UnitLiteral, BoolLiteral(TRUE), BoolLiteral(FALSE), NumberLiteral(1),
     CharLiteral(97), StringLiteral("a")}

\* The code of a function without parameters whose body leaves nothing
\* but the unit value.
ReturnsUnitOnly == <<Inst("ReturnUnit", 0)>>

\* The one push of a literal.
PushOf(e) ==
    CASE e.k = "UnitLiteral" -> Inst("Unit", 0)
      [] e.k = "BoolLiteral" -> Inst("Bool", e.v)
      [] e.k = "NumberLiteral" -> Inst("Integer", e.v)
      [] e.k = "CharLiteral" -> Inst("Char", e.v)
      [] e.k = "StringLiteral" -> InstString(e.n)

\* C23: a function without parameters whose body is one constant literal
\* has, when the literal is a statement (Needs=None), no instruction for
\* it, and when the literal is the tail (Needs=Value), exactly the one push
\* of the literal's value before the return.
C23_LiteralsElided ==
    \A k \in 1..Len(encoders) :
        (/\ file[k].args = <<>>
         /\ Len(file[k].body.a) + Len(file[k].body.t) = 1
         /\ OnlyExpr(file[k]) \in Literals)
        => /\ Ok(encoders[k])
           /\ encoders[k].insts =
                 IF OneStatement(file[k]) THEN ReturnsUnitOnly
                 ELSE <<PushOf(OnlyExpr(file[k])), Inst("Return", 0)>>

\* The statement `true;` compiles to a push of the boolean.
C23_BoolStatementPushed ==
    /\ phase = "compiled"
    /\ file = <<FnDecl("main", <<>>, Block(<<BoolLiteral(TRUE)>>, <<>>))>>
    /\ unit.insts[1] = Inst("Bool", 1)

----------------------------------------------------------------------------
(* The scope stack.                                                         *)

\* The scope the guard was returned for is the top of the stack: every
\* scope pushed after it has been popped, and it has not.
GuardOfTop(guard) ==
    scopes.pushed # <<>> /\ scopes.pushed[Len(scopes.pushed)] = guard.scope

Last(log) == log[Len(log)]

----------------------------------------------------------------------------
(* Stack pointers.                                                          *)

\* C25: in every state of the machine, a pointer held in a stack position
\* points to a strictly lower position of the stack (positions count from
\* 0), so that its target is still on the stack.
C25_PointersPointDown ==
    \A i \in 1..Len(stack) : stack[i].t = "Ptr" => stack[i].v < i - 1

\* A function that compiled has returned to the host a pointer to a slot of
\* its own frame, which is gone.
C25_DanglingReturned ==
    /\ phase = "compiled"
    /\ status = "halted"
    /\ result.t = "Ptr"
    /\ stack = <<result>>

----------------------------------------------------------------------------
(* Host tuples.                                                             *)

\* The value is a tuple of n elements.
TupleOfLen(value, n) == value.t = "Tuple" /\ Len(value.items) = n

\* A tuple of another length is refused with both lengths.
WrongLengthRefused ==
    (host.op = "from_value" /\ host.value.t = "Tuple"
       /\ Len(host.value.items) # Len(host.types))
    => host.out = ConvErr("ExpectedTupleLength", Len(host.value.items), Len(host.types))

\* A host tuple made into a value and back is the same tuple.
RoundTrip ==
    host.op = "round_trip" => host.out = ConvOk(host.tuple)

ElementsConvert(value, types) ==
    \A i \in 1..Len(types) : elem_from_value(types[i], value.items[i]).ok

----------------------------------------------------------------------------
(* Operator precedence.                                                     *)

\* The levels of the operators from the loosest to the tightest: the
\* assignments, `||`, `&&`, the comparisons, `+ -`, `* / %`.
Level(op) ==
    CASE op \in AssignOps -> 0
      [] op = "Or" -> 1
      [] op = "And" -> 2
      [] op \in CompareOps -> 3
      [] op \in {"Add", "Sub"} -> 4
      [] op \in {"Mul", "Div", "Rem"} -> 5

Levelled == BinOps \ {"Is", "IsNot"}

\* The value of `a op b`.
Value(op, a, b) == OpResult(op, a, b)

\* The source is `a o1 b o2 c` with operators of different levels.
TwoLevels ==
    Len(source) = 5 /\ Level(source[2].op) # Level(source[4].op)

\* The value of `a o1 b o2 c` when the operator of the higher level binds
\* tighter.
TighterFirst ==
    IF Level(source[4].op) > Level(source[2].op)
    THEN Value(source[2].op, VInteger(source[1].n),
               Value(source[4].op, VInteger(source[3].n), VInteger(source[5].n)))
    ELSE Value(source[4].op,
               Value(source[2].op, VInteger(source[1].n), VInteger(source[3].n)),
               VInteger(source[5].n))

\* C28: the precedence of an operator of a higher level is strictly greater
\* than that of an operator of a lower level; and a function whose body is
\* `a o1 b o2 c` with operators of different levels compiles, and when it
\* has run its result is the value with the tighter operator applied first
\* (`1 + 2 * 3` is 7).
C28_Precedence ==
    /\ \A o1 \in Levelled, o2 \in Levelled :
         Level(o1) > Level(o2) => precedence(o1) > precedence(o2)
    /\ (TwoLevels /\ phase # "parsing") => phase \in {"compiling", "compiled"}
    /\ (TwoLevels /\ status = "halted") => result = TighterFirst

\* `1 + 2 * 3` has run and returned 7.
C28_Witness ==
    /\ source = <<Number(1), Op("Add"), Number(2), Op("Mul"), Number(3)>>
    /\ status = "halted"
    /\ result = VInteger(7)

----------------------------------------------------------------------------
(* Blocks and `let`.                                                        *)

\* The names a block declared: bound at its end and not at its start.
DeclaredIn(b) ==
    {name \in Names : b.closing.locals[name].bound /\ ~b.before.locals[name].bound}

\* The cleanup for n slots.
CleanupOf(n, needs_value) ==
    IF n = 0 THEN <<>>
    ELSE IF needs_value THEN <<Inst("Clean", n)>>
    ELSE IF n = 1 THEN <<Inst("Pop", 0)>>
    ELSE <<Inst("PopN", n)>>

\* C29: for every block of a function that compiled, the locals after the
\* block (the variable count and the bindings of the names) are the locals
\* before it, the stack of parent scopes has the length it had, and the
\* instructions emitted at the end of the block are the cleanup for the
\* slots declared inside it: Clean{n} when the value is needed, Pop or
\* PopN{n} when it is not, nothing when n = 0.
C29_BlockRestoresScope ==
    \A k \in 1..Len(encoders) :
        Ok(encoders[k]) =>
        \A i \in 1..Len(encoders[k].blocks) :
            /\ encoders[k].blocks[i].after = encoders[k].blocks[i].before
            /\ encoders[k].blocks[i].parents_after = encoders[k].blocks[i].parents_before
            /\ encoders[k].blocks[i].closing.var_count
                 = encoders[k].blocks[i].before.var_count
                   + Cardinality(DeclaredIn(encoders[k].blocks[i]))
            /\ encoders[k].blocks[i].cleanup
                 = CleanupOf(Cardinality(DeclaredIn(encoders[k].blocks[i])),
                             encoders[k].blocks[i].needs_value)

\* A function compiled in which a block that needs no value declared two
\* variables under the parameter, and another block in it declared one.
C29_Witness ==
    /\ phase = "compiled"
    /\ Len(encoders) = 1
    /\ \E i, j \in 1..Len(encoders[1].blocks) :
         /\ encoders[1].blocks[i].cleanup = <<Inst("PopN", 2)>>
         /\ encoders[1].blocks[i].before.var_count >= 1
         /\ encoders[1].blocks[i].closing.locals["z"].bound
         /\ ~encoders[1].blocks[i].after.locals["z"].bound
         /\ encoders[1].blocks[j].cleanup = <<Inst("Pop", 0)>>

\* The function begins with `let name = 1` or `let name = &x`.
BeginsWithLet(f) ==
    /\ Len(f.body.a) >= 1
    /\ f.body.a[1].k = "Let"
    /\ f.body.a[1].a[1] \in {One, RefX}

\* The function is `let y = 1; if true { let y = 2; } y`.
ShadowsInBlock(f) ==
    f.body = Block(<<Let("y", One),
                     ExprIf(True, Block(<<Let("y", NumberLiteral(2))>>, <<>>), <<>>, <<>>)>>,
                   <<Y>>)

\* C30: in a function that compiled and begins with a `let`, the `let` of
\* a name that is not a parameter emits the initialiser alone, binds the
\* name to the slot numbered by the variable count before it and raises
\* the count by one; the `let` of a parameter's name emits the initialiser
\* and Replace with the parameter's slot and leaves the count; and a `let`
\* in a nested block for a name of the enclosing block does not overwrite
\* the enclosing variable: `let y = 1; if true { let y = 2; } y` is 1.
C30_LetAllocatesOrReplaces ==
    \A k \in 1..Len(encoders) :
        /\ (Ok(encoders[k]) /\ BeginsWithLet(file[k])) =>
             IF encoders[k].prologue.locals[file[k].body.a[1].n].bound
             THEN /\ encoders[k].marks[1].at = 2
                  /\ encoders[k].insts[2] =
                       Inst("Replace", encoders[k].prologue.locals[file[k].body.a[1].n].offset)
                  /\ encoders[k].marks[1].vars = encoders[k].prologue.var_count
             ELSE /\ encoders[k].marks[1].at = 1
                  /\ encoders[k].marks[1].vars = encoders[k].prologue.var_count + 1
                  /\ encoders[k].locals.locals[file[k].body.a[1].n].bound
                  /\ encoders[k].locals.locals[file[k].body.a[1].n].offset
                       = encoders[k].prologue.var_count
        /\ (k = Len(file) /\ ShadowsInBlock(file[k]) /\ status = "halted")
             => result = VInteger(1)

\* `let y = 1; if true { let y = 2; } y` has run and returned 2.
C30_InnerLetOverwrites ==
    /\ ShadowsInBlock(file[Len(file)])
    /\ file[Len(file)].args = <<>>
    /\ status = "halted"
    /\ result = VInteger(2)

----------------------------------------------------------------------------
(* The lowering of `while`.                                                 *)

\* The function's only expression is a `while`.
WhileFn(f) ==
    Len(f.body.a) + Len(f.body.t) = 1 /\ OnlyExpr(f).k = "While"

\* The encoder of the function after its parameters are declared and the
\* labels `start` (1) and `end` (2) and the loop record are made.
InWhile(f) == push_loop(new_label(new_label(prologue(EncoderNew, f))), 2)

\* The condition lowered with Needs=Value, and the body with Needs=None.
CondInsts(f) == encode_expr(InWhile(f), OnlyExpr(f).a[1], TRUE).insts
BodyInsts(f) == encode_block(InWhile(f), OnlyExpr(f).a[2], FALSE).insts

\* The instructions of the `while` in their order.
WhileInsts(f) ==
    CondInsts(f) \o <<Inst("JumpIfNot", 2)>> \o BodyInsts(f) \o <<Inst("Jump", 1)>>
    \o (IF f.body.t # <<>> THEN <<Inst("Unit", 0)>> ELSE <<>>)

\* The jump back and the unit are in the code as claimed.
WhileLowered(k) ==
    /\ SubSeq(encoders[k].insts, 1, Len(WhileInsts(file[k]))) = WhileInsts(file[k])
    /\ encoders[k].marks[1].at = Len(WhileInsts(file[k]))
    /\ encoders[k].labels[1] = 0
    /\ encoders[k].labels[2] = Len(CondInsts(file[k])) + Len(BodyInsts(file[k])) + 2

\* C31: the code of a function whose only expression is a `while` is the
\* condition (Needs=Value) at label `start`, a jump-if-not to `end`, the
\* body (Needs=None), a jump to `start`, label `end`, and one Unit exactly
\* when the `while` is the tail; and whenever the machine is at `start` the
\* stack holds the parameters and nothing else, on every iteration.
C31_WhileLowering ==
    \A k \in 1..Len(encoders) :
        (Ok(encoders[k]) /\ WhileFn(file[k])) =>
            /\ WhileLowered(k)
            /\ (k = Len(file) /\ InRootFrame /\ ip = MainEntry)
                 => Depth = Len(file[k].args)

\* `while true { true; }` is back at `start` with the boolean of the body
\* still on the stack.
C31_StackGrows ==
    /\ file = <<FnDecl("main", <<>>, Block(<<While(True, Block(<<True>>, <<>>))>>, <<>>))>>
    /\ InRootFrame
    /\ ip = MainEntry
    /\ Depth > 0


\* The loop record a lowered loop pushes: its end label and the variable
\* count at the loop's entry.
RecordOf(l) == [end_label |-> l.end_label, var_count |-> l.var_count]
\* The lowered loops of enc whose instructions hold the jump of break b.
Enclosing(enc, b) ==
    {j \in 1..Len(enc.looped) : enc.looped[j].start <= b.at /\ b.at < enc.looped[j].end}
\* The enclosing loops that lie inside every other enclosing loop.
Innermost(enc, b) ==
    {j \in Enclosing(enc, b) : \A i \in Enclosing(enc, b) :
        enc.looped[i].start <= enc.looped[j].start /\ enc.looped[j].end <= enc.looped[i].end}

\* C32: in every function that compiled, each lowered `while` and `loop`
\* had, while its body was lowered, the loop stack of its entry with exactly
\* one record appended, holding the loop's end label and the variable count
\* at entry; after the loop the loop stack is the one before it; and every
\* break resolved to the record of the innermost loop whose instructions
\* contain it.
C32_LoopRecords ==
    \A k \in 1..Len(encoders) : Ok(encoders[k]) =>
        /\ encoders[k].loops = <<>>
        /\ \A j \in 1..Len(encoders[k].looped) :
              /\ encoders[k].looped[j].inside =
                     Append(encoders[k].looped[j].before, RecordOf(encoders[k].looped[j]))
              /\ encoders[k].looped[j].after = encoders[k].looped[j].before
        /\ \A i \in 1..Len(encoders[k].breaks) :
              /\ Cardinality(Innermost(encoders[k], encoders[k].breaks[i])) = 1
              /\ \A j \in Innermost(encoders[k], encoders[k].breaks[i]) :
                     /\ encoders[k].breaks[i].loops = encoders[k].looped[j].inside
                     /\ encoders[k].insts[encoders[k].breaks[i].at + 1] =
                            Inst("Jump", encoders[k].looped[j].end_label)

\* C32 witness: a compiled function with a `loop` and a `while`, one inside
\* the other, a break in the inner one and a break in the outer one.
C32_Witness ==
    \E k \in 1..Len(encoders) :
        /\ Ok(encoders[k])
        /\ \E i, j \in 1..Len(encoders[k].looped) :
              /\ Len(encoders[k].looped[i].before) = 1
              /\ encoders[k].looped[i].form # encoders[k].looped[j].form
        /\ \E i, j \in 1..Len(encoders[k].breaks) :
              /\ Len(encoders[k].breaks[i].loops) = 2
              /\ Len(encoders[k].breaks[j].loops) = 1


\* The `if` expressions of the model with two `else if` branches.
TwoElseIfs(e) == e.k = "ExprIf" /\ Len(e.a) = 6
\* The labels of enc that no `label` site committed.
Uncommitted(enc) == {l \in 1..Len(enc.labels) : enc.labels[l] = -1}

\* C33: in every function the encoder lowered without an error, every label
\* created is committed (a second commit of a label is the error
\* LabelConflict), so no jump of the function holds a dangling label.
C33_IfLabelsCommitted ==
    \A k \in 1..Len(encoders) : Ok(encoders[k]) => Uncommitted(encoders[k]) = {}

\* C33: the function whose body is an `if` with two `else if` branches is
\* lowered without an error, holds a conditional jump to a label that is
\* never committed, and is refused by the linker.
C33_SecondBranchDangling ==
    /\ Len(encoders) = 1 /\ Ok(encoders[1])
    /\ file[1].body.a = <<>> /\ file[1].body.t # <<>>
    /\ TwoElseIfs(OnlyExpr(file[1]))
    /\ Uncommitted(encoders[1]) = {4}
    /\ \E p \in 1..Len(encoders[1].insts) : encoders[1].insts[p] = Inst("JumpIf", 4)
    /\ cerr = "MissingLabel"


\* The function's body is one `if` expression, as a statement or as the tail.
IfFn(f) == Len(f.body.a) + Len(f.body.t) = 1 /\ OnlyExpr(f).k = "ExprIf"
\* The conditions of an `if`: its own and the one of each `else if`.
Conditions(expr_if) == {expr_if.a[i] : i \in {i \in 1..Len(expr_if.a) : i % 2 = 1}}
\* What lowering a condition of f with Needs=Value emits: one value pushed.
PredicateInsts(f, cond) == encode_expr(prologue(EncoderNew, f), cond, TRUE).insts
\* The instructions insts[p - n] .. insts[p - 1] before position p.
Preceding(insts, p, n) == IF n < p THEN SubSeq(insts, p - n, p - 1) ELSE <<>>

\* C34: in every compiled function whose body is one `if`, each JumpIf is
\* immediately preceded by the instructions that lowering one of the `if`'s
\* conditions with Needs=Value emits, whether the `if` is the tail
\* (Needs=Value) or a statement (Needs=None).
C34_PredicateBeforeJump ==
    \A k \in 1..Len(encoders) : (Ok(encoders[k]) /\ IfFn(file[k])) =>
        \A p \in 1..Len(encoders[k].insts) : encoders[k].insts[p].op = "JumpIf" =>
            \E cond \in Conditions(OnlyExpr(file[k])) :
                /\ PredicateInsts(file[k], cond) # <<>>
                /\ Preceding(encoders[k].insts, p, Len(PredicateInsts(file[k], cond)))
                       = PredicateInsts(file[k], cond)

\* C34: `fn main(x) { if false { 1 } else if x { x }; }` stands at the
\* JumpIf of the `else if` with nothing on the stack but the argument.
C34_JumpWithoutPredicate ==
    /\ file = <<FnDecl("main", <<"x">>,
                 Block(<<ExprIf(BoolLiteral(FALSE), Block(<<>>, <<One>>),
                                <<X, Block(<<>>, <<X>>)>>, <<>>)>>, <<>>))>>
    /\ At({"JumpIf"}) /\ ip = 2
    /\ InRootFrame /\ Depth = 1


\* The last operation on the scope stack was `op`.
LastOp(op) == scopes.log # <<>> /\ scopes.log[1].op = op
\* The live scopes of the stack the last operation was called on that
\* declare the name it was called with.
Declaring == {i \in 1..Len(scopes.log[1].before) :
                 scopes.log[1].before[i].locals[scopes.log[1].name].bound}
\* The innermost of them.
InnermostDeclaring == CHOOSE i \in Declaring : \A j \in Declaring : j <= i

\* C35: a lookup leaves the scope stack as it was; when a live scope
\* declares the name it returns the binding held by the innermost such
\* scope, and otherwise it fails with MissingLocal carrying the name and
\* the span of the lookup.
C35_InnermostBinding ==
    LastOp("get_var") =>
        /\ scopes.scopes = scopes.log[1].before
        /\ Declaring # {} =>
              /\ scopes.log[1].ok
              /\ scopes.log[1].var =
                     scopes.log[1].before[InnermostDeclaring].locals[scopes.log[1].name]
        /\ Declaring = {} =>
              /\ ~scopes.log[1].ok
              /\ scopes.log[1].err = "MissingLocal"
              /\ scopes.log[1].err_name = scopes.log[1].name
              /\ scopes.log[1].err_span = scopes.log[1].span

\* C35 witness: `x` is declared in the root scope and again in a child and
\* `y` in the root only; the lookup of `x` returned the child's binding.
C35_Witness ==
    /\ LastOp("get_var") /\ scopes.log[1].name = "x"
    /\ Len(scopes.scopes) = 2
    /\ scopes.scopes[1].locals["x"].bound /\ scopes.scopes[1].locals["y"].bound
    /\ scopes.scopes[2].locals["x"].bound /\ ~scopes.scopes[2].locals["y"].bound
    /\ scopes.log[1].var = scopes.scopes[2].locals["x"]
    /\ scopes.log[1].var.offset = 2


RECURSIVE LocalVarCounts(_, _)
\* The sum of local_var_count over the scopes 1..i of the stack.
LocalVarCounts(live, i) ==
    IF i = 0 THEN 0 ELSE live[i].local_var_count + LocalVarCounts(live, i - 1)

\* The variables the live scopes hold: named ones and anonymous ones.
NamedVars == {<<i, name, 0>> : i \in 1..Len(scopes.scopes), name \in VarNames}
AnonVars == {<<i, "", k>> : i \in 1..Len(scopes.scopes), k \in 1..MaxVars}
HeldOffsets ==
    [v \in {v \in NamedVars : scopes.scopes[v[1]].locals[v[2]].bound} |->
        scopes.scopes[v[1]].locals[v[2]].offset]
    @@ [v \in {v \in AnonVars : v[3] <= Len(scopes.scopes[v[1]].anon)} |->
        scopes.scopes[v[1]].anon[v[3]].offset]

\* The top scope before and after the last operation.
TopBefore == scopes.log[1].before[Len(scopes.log[1].before)]
TopAfter == scopes.scopes[Len(scopes.scopes)]

\* C36: on every scope stack reached by pushing children of the top scope,
\* popping and declaring, the top scope's total_var_count is the sum of
\* local_var_count over the live scopes; a declaration returned the
\* total_var_count the top scope had before it and raised both counters of
\* the top scope by one; and no two variables held by live scopes have the
\* same offset.
C36_OffsetsCounted ==
    /\ scopes.scopes # <<>> =>
           TopAfter.total_var_count = LocalVarCounts(scopes.scopes, Len(scopes.scopes))
    /\ ((LastOp("new_var") \/ LastOp("decl_var") \/ LastOp("decl_anon"))
           /\ scopes.log[1].ok) =>
           /\ scopes.log[1].offset = TopBefore.total_var_count
           /\ TopAfter.total_var_count = TopBefore.total_var_count + 1
           /\ TopAfter.local_var_count = TopBefore.local_var_count + 1
           /\ LastOp("decl_anon") \/
                  TopAfter.locals[scopes.log[1].name].offset = scopes.log[1].offset
    /\ \A v, w \in DOMAIN HeldOffsets : v # w => HeldOffsets[v] # HeldOffsets[w]

\* C36 witness: three live scopes with one variable each, the last of them
\* just declared at offset 2 in the innermost scope, one of them anonymous
\* and `x` declared in two of the scopes.
C36_Witness ==
    /\ Len(scopes.scopes) = 3
    /\ \A i \in 1..3 : scopes.scopes[i].local_var_count = 1
    /\ LastOp("new_var") /\ scopes.log[1].ok /\ scopes.log[1].offset = 2
    /\ scopes.scopes[1].locals["x"].bound /\ scopes.scopes[3].locals["x"].bound
    /\ Len(scopes.scopes[2].anon) = 1


\* C37: when new_var fails with VariableConflict the scope stack is the one
\* it was called on.
C37_ConflictLeavesScope ==
    (LastOp("new_var") /\ scopes.log[1].err = "VariableConflict") =>
        scopes.scopes = scopes.log[1].before

\* C37: `x` was declared at offset 0 with span 1; declaring it again with
\* span 2 failed with VariableConflict naming span 1, and the scope now
\* counts two variables and holds `x` at offset 1 with span 2.
C37_ConflictAdvances ==
    /\ LastOp("new_var") /\ scopes.log[1].err = "VariableConflict"
    /\ scopes.log[1].before = <<Scope_new_var(Scope_new, "x", 1).scope>>
    /\ scopes.log[1].other_span = 1
    /\ scopes.scopes[1].total_var_count = 2 /\ scopes.scopes[1].local_var_count = 2
    /\ scopes.scopes[1].locals["x"] = Var(1, "x", 2)

\* C37: the encoder that refused `fn g(x, x)` with VariableConflict counts
\* two variables and holds `x` at offset 1.
C37_LocalsAdvanced ==
    /\ Len(encoders) >= 1 /\ file[1].args = <<"x", "x">>
    /\ encoders[1].err = "VariableConflict"
    /\ encoders[1].locals.var_count = 2
    /\ encoders[1].locals.locals["x"].offset = 1


\* The function's parameters are declared without a conflict and its body
\* is one `break`, as a statement or as the tail: the `break` is lowered
\* with no loop record on the loop stack.
BreakFn(f) ==
    /\ Len(f.body.a) + Len(f.body.t) = 1 /\ OnlyExpr(f).k = "Break"
    /\ Ok(prologue(EncoderNew, f))
\* The encoder of function k stopped with the error and emitted nothing.
Refused(k, err) ==
    /\ encoders[k].err = err
    /\ encoders[k].insts = <<>>
    /\ encoders[k].loops = <<>>
    /\ ~Added(k)

\* C38 as stated: a `break` lowered with no loop record fails with
\* BreakOutsideOfLoop whatever the Needs flag, and emits nothing.
C38_BreakOutsideOfLoop ==
    \A k \in 1..Len(encoders) : BreakFn(file[k]) => Refused(k, "BreakOutsideOfLoop")

\* C38, amended: a `break` lowered with no loop record always fails and
\* emits neither a pop nor a jump; the error is BreakOutsideOfLoop when it
\* is lowered with Needs=None (a statement) and BreakDoesNotProduceValue
\* when it is lowered with Needs=Value (the tail of the body).
C38_BreakRefused ==
    \A k \in 1..Len(encoders) : BreakFn(file[k]) =>
        Refused(k, IF file[k].body.t # <<>> THEN "BreakDoesNotProduceValue"
                   ELSE "BreakOutsideOfLoop")

\* C38 witness: `fn main(x) { break }` was refused with
\* BreakDoesNotProduceValue, with its parameter declared and nothing emitted.
C38_Witness ==
    /\ file = <<FnDecl("main", <<"x">>, Block(<<>>, <<Break>>))>>
    /\ Len(encoders) = 1
    /\ Refused(1, "BreakDoesNotProduceValue")
    /\ encoders[1].locals.var_count = 1
    /\ cerr = "BreakDoesNotProduceValue"


\* The function's body is one call, free or on an instance, as a statement
\* (Needs=None) or as the tail (Needs=Value).
CallFnDecl(f) ==
    Len(f.body.a) + Len(f.body.t) = 1 /\ OnlyExpr(f).k \in {"CallFn", "CallInstanceFn"}
\* What lowering the argument or the instance e of f's call with
\* Needs=Value emits.
ValueInsts(f, e) == encode_expr(prologue(EncoderNew, f), e, TRUE).insts
RECURSIVE ReversedArgs(_, _, _)
\* The lowered arguments args[i], args[i - 1], .. args[1], in that order.
ReversedArgs(f, args, i) ==
    IF i < 1 THEN <<>> ELSE ValueInsts(f, args[i]) \o ReversedArgs(f, args, i - 1)
\* The call instruction of the call, with the hash of the name.
CallInst(call) ==
    [op |-> IF call.k = "CallFn" THEN "Call" ELSE "CallInstance",
     a |-> Len(call.a), h |-> call.n]
\* The instance of an instance call, lowered after the arguments.
InstanceInsts(f, call) ==
    IF call.k = "CallInstanceFn" THEN ValueInsts(f, call.t[1]) ELSE <<>>
\* The whole lowering of the call of f.
CallInsts(f) ==
    ReversedArgs(f, OnlyExpr(f).a, Len(OnlyExpr(f).a)) \o InstanceInsts(f, OnlyExpr(f))
    \o <<CallInst(OnlyExpr(f))>>
    \o (IF f.body.t = <<>> THEN <<Inst("Pop", 0)>> ELSE <<>>)

\* C39: in every compiled function whose body is one call, the instructions
\* of the call are the arguments lowered with Needs=Value from the last to
\* the first, then for an instance call the instance, then Call or
\* CallInstance with the hash of the name and the number of arguments, then
\* one Pop exactly when the call is a statement (Needs=None).
C39_CallLowering ==
    \A k \in 1..Len(encoders) : (Ok(encoders[k]) /\ CallFnDecl(file[k])) =>
        /\ encoders[k].marks[1].at = Len(CallInsts(file[k]))
        /\ SubSeq(encoders[k].insts, 1, Len(CallInsts(file[k]))) = CallInsts(file[k])

\* C39 witness: `fn main(x) { x.m(1, 2); }` was lowered to Integer 2,
\* Integer 1, Copy 0, CallInstance{m, 2}, Pop.
C39_Witness ==
    /\ file = <<FnDecl("main", <<"x">>,
                 Block(<<CallInstanceFn(X, "m", <<One, NumberLiteral(2)>>)>>, <<>>))>>
    /\ Len(encoders) = 1 /\ Ok(encoders[1])
    /\ SubSeq(encoders[1].insts, 1, 5) =
          <<Inst("Integer", 2), Inst("Integer", 1), Inst("Copy", 0),
            InstCallInstance("m", 2), Inst("Pop", 0)>>

====
